---- MODULE Spec2Model ----
(***************************************************************************)
(* A model of the GGPO matchmaking server, src/ggposrv.py.                 *)
(*                                                                         *)
(* Every TCP connection is a GGPOClient object served by its own thread    *)
(* (SocketServer.ThreadingMixIn).  The objects' fields are functions over  *)
(* the connection slots Conn; the server's registries (clients,            *)
(* connections, channels, quarks) are finite maps.  A handler is a         *)
(* function from the whole program state (a record, see Cur) to the state  *)
(* after it: the statements of the Python method are applied in order, so  *)
(* that aliasing (a client that challenges itself, a nick that resolves to *)
(* the caller) behaves as in the code.                                     *)
(***************************************************************************)
EXTENDS Integers, Sequences, FiniteSets, TLC

\* ------------------------------------------------------------ bounds
NLobby == 2      \* connections opened by lobby clients
NEmu == 2        \* connections opened by emulators (ggpofba)
MaxQueue == 3    \* frames a send_queue may hold before it is flushed
MaxQuarks == 1   \* quark tokens minted by accept
NWatch == 1      \* connections opened by emulators that spectate

\* ------------------------------------------------- program constants
NoConn == 0          \* None, where a GGPOClient is expected
NoQuark == 0         \* None, where a quark token is expected
NoStatus == -1       \* None, where a status is expected
None == "None"       \* None, where a nick is expected

\* sequence numbers of the pushes, as signed 32-bit integers
\* (4294967292 = 0xFFFFFFFC = -4, ...)
NegSeqEstablished == -1
NegSeqChat == -2
NegSeqPresence == -3
NegSeqChallenge == -4
NegSeqDecline == -5
NegSeqQuark == -6
NegSeqPeer == -7
NegSeqSpectate == -11
NegSeqSpectators == -10
NegSeqCancel == -17

\* NACK codes
NackAuth == 6
NackJoin == 8
NackUnknown == 8
NackChallenge == 10
NackAccept == 12
NackDecline == 13
NackCancel == 14

\* the least sequence number handle_status acknowledges is above this
StatusAckAbove == 4

\* ------------------------------------------------------ the universe
LobbyConn == 1..NLobby
EmuConn == (NLobby + 1)..(NLobby + NEmu)
WatchConn == (NLobby + NEmu + 1)..(NLobby + NEmu + NWatch)
Conn == 1..(NLobby + NEmu + NWatch)

\* client_address = (ip, port).  The emulator of a player runs on the
\* player's machine: emulator connection NLobby+j comes from the ip of
\* lobby connection j (modulo NLobby); a spectating emulator runs on a
\* machine of its own.  Ports are unique per connection.
Ip(s) == IF s \in EmuConn THEN ((s - NLobby - 1) % NLobby) + 1 ELSE s
Host(s) == <<Ip(s), s>>
Hosts == {Host(s) : s \in Conn}

\* the user database (db/users.sqlite3): the accounts and their passwords;
\* Users are the accounts of the two lobby clients
Users == {"alice", "bob"}
Accounts == Users \cup {"carol"}
Password(n) == "pw"
\* nicks a request may name; "ghost" has no account and never logs in
NickInputs == Users \cup {"ghost"}
PasswordInputs == {"pw", "wrong"}

\* the static channel catalog (GGPOServer.__init__), cut to two entries
Catalog == {"lobby", "sfiii3n"}
ChannelInputs == Catalog \cup {"nochan"}

\* a GGPOChannel object: a catalog channel (owner 0), or the private
\* "lobby" object GGPOClient.__init__ gives connection `owner`
CatalogChannel(name) == [name |-> name, owner |-> 0]
PrivateLobby(s) == [name |-> "lobby", owner |-> s]

Tokens == 1..MaxQuarks
StatusInputs == {0, 1, 2}
SeqInputs == {0, 1, 5}
ReqSeqInputs == {5}
FbaPort(s) == 6000 + s

\* ------------------------------------------------------- finite maps
EmptyMap == [x \in {} |-> 0]
MapPut(m, k, v) == [x \in (DOMAIN m) \cup {k} |-> IF x = k THEN v ELSE m[x]]
MapDel(m, k) == [x \in (DOMAIN m) \ {k} |-> m[x]]

\* -------------------------------------------------------- the state
VARIABLES
  sock,             \* the connection's socket: "none" (not yet accepted),
                    \* "open", "shut" (open, the remote end has closed:
                    \* a read returns no bytes), "closed" (another
                    \* thread called
                    \* request.close()), "finished" (the connection's own
                    \* finish ran and closed it, its thread is still in
                    \* handle), "done" (handle returned and the last
                    \* finish ran)
  pc,               \* where the connection's thread is: "idle" in the
                    \* loop of handle, inside a handler, or "parsing" in
                    \* the loop of lines 397-400 with frames left in data
  local,            \* the local variables of the handler the thread is
                    \* in; in the loop of handle, `data` when it holds
                    \* the first bytes of a frame that is not complete
  nick, status, clienttype, previous_status, opponent, quark, fbaport,
  side, send_queue, channel, challenging,   \* the GGPOClient fields
  clients,          \* GGPOServer.clients: nick -> connection
  connections,      \* GGPOServer.connections: host -> connection
  chanClients,      \* GGPOChannel.clients of every catalog channel
  quarks,           \* GGPOServer.quarks: token -> GGPOQuark
  minted,           \* quark tokens minted so far (time and randoms)
  lastmsg,          \* GGPOClient.lastmsg: time of the last chat message
  now,              \* int(time.time()), the wall clock in whole seconds
  files,            \* the quarks directory: the gamebuffer, nicknames
                    \* and savestate file of every recorded token
  wire,             \* what request.send wrote to a connection's socket,
                    \* for the writes that are followed one by one
                    \* (lines 382, 563, 576 and 590)
  quarkqueue,       \* RendezvousUDPServer.quarkqueue: token -> address
  sendto,           \* the datagrams the last UDP handler sent
  udp               \* the MyUDPHandler threads, by client_address

vars == <<sock, pc, local, nick, status, clienttype, previous_status, opponent,
          quark, fbaport, side, send_queue, channel, challenging, clients,
          connections, chanClients, quarks, minted, lastmsg, now, files,
          wire, quarkqueue, sendto, udp>>

\* the program state as one record, and the step that installs a record
Cur == [sock |-> sock, pc |-> pc, local |-> local, nick |-> nick,
        status |-> status,
        clienttype |-> clienttype, previous_status |-> previous_status,
        opponent |-> opponent, quark |-> quark, fbaport |-> fbaport,
        side |-> side, send_queue |-> send_queue, channel |-> channel,
        challenging |-> challenging, clients |-> clients,
        connections |-> connections, chanClients |-> chanClients,
        quarks |-> quarks, minted |-> minted, lastmsg |-> lastmsg,
        now |-> now, files |-> files, wire |-> wire,
        quarkqueue |-> quarkqueue, sendto |-> sendto, udp |-> udp]

Becomes(st) ==
  /\ sock' = st.sock /\ pc' = st.pc /\ local' = st.local /\ nick' = st.nick
  /\ status' = st.status /\ clienttype' = st.clienttype
  /\ previous_status' = st.previous_status /\ opponent' = st.opponent
  /\ quark' = st.quark /\ fbaport' = st.fbaport /\ side' = st.side
  /\ send_queue' = st.send_queue /\ channel' = st.channel
  /\ challenging' = st.challenging /\ clients' = st.clients
  /\ connections' = st.connections /\ chanClients' = st.chanClients
  /\ quarks' = st.quarks /\ minted' = st.minted
  /\ lastmsg' = st.lastmsg /\ now' = st.now /\ files' = st.files
  /\ wire' = st.wire /\ quarkqueue' = st.quarkqueue /\ sendto' = st.sendto
  /\ udp' = st.udp

\* the bound on the send queues
QueuesOk(st) == \A s \in Conn : Len(st.send_queue[s]) <= MaxQueue

\* the clock reading when the server starts: the time since the epoch, far
\* above the 2 seconds of line 1263
Boot == 2

\* the quarks directory with no file in it
NoFiles == [gamebuffer |-> EmptyMap, nicknames |-> EmptyMap,
            savestate |-> EmptyMap]

\* GGPOClient.__init__, GGPOServer.__init__ and
\* RendezvousUDPServer.__init__, in a quarks directory that holds the
\* files f
Started(f) ==
  /\ sock = [s \in Conn |-> "none"]
  /\ pc = [s \in Conn |-> "idle"]
  /\ local = [s \in Conn |-> EmptyMap]
  /\ nick = [s \in Conn |-> None]
  /\ status = [s \in Conn |-> 0]
  /\ clienttype = [s \in Conn |-> None]
  /\ previous_status = [s \in Conn |-> NoStatus]
  /\ opponent = [s \in Conn |-> None]
  /\ quark = [s \in Conn |-> NoQuark]
  /\ fbaport = [s \in Conn |-> 0]
  /\ side = [s \in Conn |-> 0]
  /\ send_queue = [s \in Conn |-> <<>>]
  /\ channel = [s \in Conn |-> PrivateLobby(s)]
  /\ challenging = [s \in Conn |-> EmptyMap]
  /\ clients = EmptyMap
  /\ connections = EmptyMap
  /\ chanClients = [c \in Catalog |-> {}]
  /\ quarks = EmptyMap
  /\ minted = 0
  /\ lastmsg = [s \in Conn |-> 0]
  /\ now = Boot
  /\ files = f
  /\ wire = [s \in Conn |-> <<>>]
  /\ quarkqueue = EmptyMap
  /\ sendto = <<>>
  /\ udp = EmptyMap

\* the server starts with an empty quarks directory
Init == Started(NoFiles)

\* ----------------------------------------------------------- frames
\* reply(sequence, pdu): the frame is its sequence number and its payload;
\* the payload is a tuple that starts with a tag naming its layout
reply(sequence, pdu) == <<sequence, pdu>>
ACK == <<"ACK">>
NACK(code) == <<"NACK", code>>

Enqueue(st, t, frame) ==
  [st EXCEPT !.send_queue[t] = Append(@, frame)]

\* the same frame appended to the queue of every connection of a set
EnqueueAll(st, targets, frame) ==
  [st EXCEPT !.send_queue =
     [t \in Conn |-> IF t \in targets THEN Append(@[t], frame) ELSE @[t]]]

send_ack(st, s, sequence) == Enqueue(st, s, reply(sequence, ACK))

\* the member set of a GGPOChannel object; nothing ever adds a member to
\* a private lobby object
ChannelClients(st, ch) == IF ch.owner = 0 THEN st.chanClients[ch.name] ELSE {}

get_client_from_nick(st, s, n) ==
  IF n \in DOMAIN st.clients THEN st.clients[n] ELSE s

\* ------------------------------------------------- lobby handlers
handle_connect(st, s, sequence) ==
  LET a == send_ack(st, s, sequence)
  IN  [a EXCEPT !.connections = MapPut(@, Host(s), s)]

\* handle_unknown, lines 955-961; finish is applied by the caller
handle_unknown(st, s, sequence) ==
  Enqueue(st, s, reply(sequence, NACK(NackUnknown)))

\* the authenticator: the salted HMAC of the password matches the stored one
Authenticate(n, password) == n \in Accounts /\ password = Password(n)

kick_client(st, s, sequence) == Enqueue(st, s, reply(sequence, NACK(NackAuth)))

\* clone.request.close(): closing a socket that is closed already is a no-op
CloseSocket(st, t) ==
  IF st.sock[t] \in {"open", "shut"} THEN [st EXCEPT !.sock[t] = "closed"]
  ELSE st

handle_auth(st, s, n, password, sequence) ==
  IF ~Authenticate(n, password) THEN kick_client(st, s, sequence)
  ELSE
    LET clone == get_client_from_nick(st, s, n)
        a == IF n \in DOMAIN st.clients /\ clone # s
             THEN CloseSocket([st EXCEPT !.clients = MapDel(@, n)], clone)
             ELSE st
        b == [a EXCEPT !.nick[s] = n,
                       !.clients = MapPut(@, n, s),
                       !.clienttype[s] = "client"]
        c == send_ack(b, s, sequence)
        d == IF Host(s) \in DOMAIN c.connections
             THEN [c EXCEPT !.connections = MapDel(@, Host(s))]
             ELSE c
    IN  Enqueue(d, s, reply(NegSeqPresence, <<"auth", d.nick[s], d.status[s]>>))

\* the presence record handle_status and handle_join broadcast
PresencePdu(st, s, withOpponent) ==
  <<"presence", st.nick[s], st.status[s],
    IF withOpponent THEN st.opponent[s] ELSE None>>

PartPdu(st, s) == <<"part", st.nick[s]>>

handle_status(st, s, stat, sequence) ==
  LET a == IF sequence > StatusAckAbove THEN send_ack(st, s, sequence) ELSE st
  IN  IF /\ a.status[s] = 2 /\ sequence # 0
         /\ stat >= 0 /\ stat < 2 /\ a.opponent[s] # None
      THEN \* set previous_status when status is modified while playing
           [a EXCEPT !.previous_status[s] = stat]
      ELSE IF (stat >= 0 /\ stat < 2) \/ (stat = 2 /\ sequence = 0)
      THEN LET b == [a EXCEPT !.status[s] = stat]
           IN  EnqueueAll(b, ChannelClients(b, b.channel[s]),
                          reply(NegSeqPresence, PresencePdu(b, s, TRUE)))
      ELSE a

\* a handle_part that tells the members and leaves the member set alone
handle_part_keep(st, s, pchannel) ==
  EnqueueAll(st, ChannelClients(st, st.channel[s]) \ {s},
             reply(NegSeqPresence, PartPdu(st, s)))

\* pchannel is always self.channel.name, the name of a catalog channel
handle_part(st, s, pchannel) ==
  LET a == EnqueueAll(st, ChannelClients(st, st.channel[s]) \ {s},
                      reply(NegSeqPresence, PartPdu(st, s)))
  IN  [a EXCEPT !.chanClients[pchannel] = @ \ {s}]

\* a handle_join that creates the channel it does not find (the setdefault
\* of line 1216 without the test of line 1205)
handle_join_create(st, s, channel_name, sequence) ==
  IF st.nick[s] = None
  THEN Enqueue(st, s, reply(sequence, NACK(NackJoin)))
  ELSE
    LET a == handle_part(st, s, st.channel[s].name)
        b == [a EXCEPT !.chanClients =
                         MapPut(@, channel_name,
                                (IF channel_name \in DOMAIN @
                                 THEN @[channel_name] ELSE {}) \cup {s}),
                       !.channel[s] = CatalogChannel(channel_name)]
        c == send_ack(b, s, sequence)
        d == Enqueue(c, s, reply(NegSeqEstablished, <<"established">>))
    IN  EnqueueAll(d, d.chanClients[channel_name],
                   reply(NegSeqPresence, PresencePdu(d, s, FALSE)))

handle_join(st, s, channel_name, sequence) ==
  IF channel_name \notin Catalog \/ st.nick[s] = None
  THEN Enqueue(st, s, reply(sequence, NACK(NackJoin)))
  ELSE
    LET a == handle_part(st, s, st.channel[s].name)
        b == [a EXCEPT !.chanClients[channel_name] = @ \cup {s},
                       !.channel[s] = CatalogChannel(channel_name)]
        c == send_ack(b, s, sequence)
        d == Enqueue(c, s, reply(NegSeqEstablished, <<"established">>))
    IN  EnqueueAll(d, d.chanClients[channel_name],
                   reply(NegSeqPresence, PresencePdu(d, s, FALSE)))

\* handle_users: one record of every member of the channel (the order of
\* the records is the order of a set), and their number
UserRecord(st, c) == <<st.nick[c], st.status[c], st.opponent[c]>>

handle_users(st, s, sequence) ==
  LET members == ChannelClients(st, st.channel[s])
  IN  Enqueue(st, s, reply(sequence,
                <<"users", Cardinality(members),
                  {UserRecord(st, c) : c \in members}>>))

\* --------------------------------------------------- challenge broker
handle_challenge(st, s, n, ch, sequence) ==
  LET client == get_client_from_nick(st, s, n)
  IN  IF /\ st.status[client] = 0
         /\ st.channel[client] = st.channel[s]
         /\ st.channel[s].name = ch
         /\ st.status[s] < 2
      THEN LET a == send_ack(st, s, sequence)
               b == [a EXCEPT !.side[s] = 1]
               c == Enqueue(b, client,
                      reply(NegSeqChallenge,
                            <<"challenge", b.nick[s], b.channel[s].name>>))
           IN  [c EXCEPT !.challenging[s] = MapPut(@, Host(client), client)]
      ELSE Enqueue(st, s, reply(sequence, NACK(NackChallenge)))

QuarkUri(name, q) == <<"quark:served", name, q, 7000>>

\* The statements of handle_accept after the test of line 821, one by one.
\* client is the connection the nick resolved to and q the token minted
\* at lines 842-845.
AcceptSteps == 12
accept_step(k, st, s, client, n, q) ==
  CASE k = 1 -> [st EXCEPT !.challenging[client] = MapDel(@, Host(s))]
    [] k = 2 -> [st EXCEPT !.side[s] = 2]
    [] k = 3 -> [st EXCEPT !.opponent[s] = n]
    [] k = 4 -> [st EXCEPT !.opponent[client] = st.nick[s]]
    [] k = 5 -> [st EXCEPT !.previous_status[s] = st.status[s]]
    [] k = 6 -> [st EXCEPT !.previous_status[client] = st.status[client]]
    [] k = 7 -> [st EXCEPT !.status[s] = 2]
    [] k = 8 -> [st EXCEPT !.status[client] = 2]
    [] k = 9 -> [st EXCEPT !.quark[s] = q]
    [] k = 10 -> [st EXCEPT !.quark[client] = q]
    [] k = 11 -> Enqueue(st, s,
                   reply(NegSeqQuark,
                         <<"quark", st.opponent[s], st.nick[s],
                           QuarkUri(st.channel[s].name, st.quark[s])>>))
    [] OTHER -> Enqueue(st, client,
                   reply(NegSeqQuark,
                         <<"quark", st.nick[client], st.opponent[client],
                           QuarkUri(st.channel[s].name, st.quark[s])>>))

RECURSIVE AcceptFrom(_, _, _, _, _, _)
AcceptFrom(k, st, s, client, n, q) ==
  IF k > AcceptSteps THEN st
  ELSE AcceptFrom(k + 1, accept_step(k, st, s, client, n, q), s, client, n, q)

\* the token minted by this accept: the clock and the randoms make it new
Mint(st) == st.minted + 1

handle_accept(st, s, n, ch, sequence) ==
  LET client == get_client_from_nick(st, s, n)
  IN  IF Host(s) \notin DOMAIN st.challenging[client]
      THEN Enqueue(st, s, reply(sequence, NACK(NackAccept)))
      ELSE AcceptFrom(1, [st EXCEPT !.minted = Mint(st)],
                      s, client, n, Mint(st))

handle_decline(st, s, n, sequence) ==
  LET client == get_client_from_nick(st, s, n)
  IN  IF Host(s) \notin DOMAIN st.challenging[client]
      THEN Enqueue(st, s, reply(sequence, NACK(NackDecline)))
      ELSE LET a == [st EXCEPT !.challenging[client] = MapDel(@, Host(s))]
               b == send_ack(a, s, sequence)
           IN  Enqueue(b, client,
                       reply(NegSeqDecline, <<"decline", b.nick[s]>>))

handle_cancel(st, s, n, sequence) ==
  LET client == get_client_from_nick(st, s, n)
  IN  IF Host(client) \notin DOMAIN st.challenging[s]
      THEN Enqueue(st, s, reply(sequence, NACK(NackCancel)))
      ELSE LET a == [st EXCEPT !.challenging[s] = MapDel(@, Host(client))]
               b == send_ack(a, s, sequence)
           IN  Enqueue(b, get_client_from_nick(b, s, n),
                       reply(NegSeqCancel, <<"cancel", b.nick[s]>>))

\* ------------------------------------------------------ quark manager
GGPOQuark(q) == [quark |-> q, p1 |-> NoConn, p1client |-> NoConn,
                 p2 |-> NoConn, p2client |-> NoConn,
                 spectators |-> {}, recorded |-> FALSE]

\* the --udpholepunch option (default off)
holepunch == FALSE

Range(m) == {m[k] : k \in DOMAIN m}

\* get_peer_from_quark returns the first match of a loop over a dict, whose
\* order is arbitrary: the set of connections it may return
get_peer_from_quark(st, s, q) ==
  LET found == {c \in Range(st.connections) :
                  /\ st.clienttype[c] = "player"
                  /\ st.quark[c] = q
                  /\ Host(c) # Host(s)}
  IN  IF found = {} THEN {s} ELSE found

\* get_myclient_from_quark, likewise the set of its possible results
get_myclient_from_quark(st, s, q) ==
  LET known == q \in DOMAIN st.quarks
      c1 == IF known THEN st.quarks[q].p1client ELSE NoConn
      c2 == IF known THEN st.quarks[q].p2client ELSE NoConn
      found == {c \in Range(st.clients) :
                  /\ st.clienttype[c] = "client"
                  /\ st.quark[c] = q
                  /\ Ip(c) = Ip(s)}
  IN  IF c1 # NoConn /\ st.nick[s] # None /\ st.nick[c1] = st.nick[s]
      THEN {c1}
      ELSE IF c2 # NoConn /\ st.nick[s] # None /\ st.nick[c2] = st.nick[s]
      THEN {c2}
      ELSE IF found = {} THEN {s} ELSE found

\* -------------------------------------------------------- spectators
\* lines 754-763 and 773-782: the response goes to quarkobject.p1, to
\* quarkobject.p2 and to every spectator, in this order.  An empty slot is
\* None: the logging call that names it raises AttributeError and the
\* pushes after it are not made.
PushRaises(st, q) == st.quarks[q].p1 = NoConn \/ st.quarks[q].p2 = NoConn

\* some frames appended to a queue, and to the queue of every
\* connection of a set
EnqueueFrames(st, t, frames) ==
  [st EXCEPT !.send_queue[t] = @ \o frames]

EnqueueEach(st, targets, frames) ==
  [st EXCEPT !.send_queue =
     [t \in Conn |-> IF t \in targets THEN @[t] \o frames ELSE @[t]]]

PushQuark(st, q, frames) ==
  LET qo == st.quarks[q]
  IN  IF qo.p1 = NoConn THEN st
      ELSE LET a == EnqueueFrames(st, qo.p1, frames)
           IN  IF qo.p2 = NoConn THEN a
               ELSE EnqueueEach(EnqueueFrames(a, qo.p2, frames),
                                qo.spectators, frames)

\* the 0xFFFFFFF6 frame of lines 751-752 and 770-772
SpectatorCount(st, q) ==
  reply(NegSeqSpectators,
        <<"spectators", Cardinality(st.quarks[q].spectators) + 1>>)

\* handle_spectator, lines 720-763.  The response of the live branch is
\* one string that holds two frames, 0xFFFFFFF5 and 0xFFFFFFF6.
handle_spectator(st, s, q, sequence) ==
  LET a == send_ack(st, s, sequence)
      b == [a EXCEPT !.clienttype[s] = "spectator", !.quark[s] = q]
  IN  IF q \notin DOMAIN b.quarks THEN b
      ELSE LET c == [b EXCEPT !.quarks[q].spectators = @ \cup {s}]
           IN  PushQuark(c, q, <<reply(NegSeqSpectate, <<"spectate">>),
                                 SpectatorCount(c, q)>>)

\* spectator_leave, lines 765-782, for a member of a quark of the map
spectator_leave(st, s, q) ==
  LET a == [st EXCEPT !.quarks[q].spectators = @ \ {s}]
  IN  PushQuark(a, q, <<SpectatorCount(a, q)>>)

\* lines 1454-1460: a KeyError (the quark is not in the map, or self is
\* not in its spectator set) is caught; the AttributeError of an empty
\* slot is not
Leaves(st, s) ==
  /\ st.clienttype[s] = "spectator"
  /\ st.quark[s] \in DOMAIN st.quarks
  /\ s \in st.quarks[st.quark[s]].spectators

\* ------------------------------------------------------------ finish
\* lines 1390-1399 and 1412-1421: a lobby client goes back to its state
\* before the match and announces it
ResetClient(st, c) ==
  LET a == [st EXCEPT !.side[c] = 0, !.opponent[c] = None,
                      !.quark[c] = NoQuark]
      b == [a EXCEPT !.status[c] =
                IF a.previous_status[c] # NoStatus /\ a.previous_status[c] # 2
                THEN a.previous_status[c] ELSE 0]
      c1 == [b EXCEPT !.previous_status[c] = NoStatus]
  IN  handle_status(c1, c, c1.status[c], 0)

\* lines 1423-1449, reached with the quark object qo found at line 1402
FinishQuark(st, s, qo) ==
  IF qo.p1 = s \/ qo.p2 = s
  THEN IF st.quark[s] \notin DOMAIN st.quarks
       THEN st     \* quarks.pop raises KeyError: the except of line 1451
       ELSE
         LET a == [st EXCEPT
                     !.quarks = MapDel(@, st.quark[s]),
                     \* a getpeer that waits with this object goes on
                     \* with an object that is in the map no more
                     !.pc = [t \in Conn |->
                               IF @[t] = "getpeer"
                                  /\ st.local[t].quark = st.quark[s]
                               THEN "getpeer_detached" ELSE @[t]],
                     \* and so does a getnicks, with the object as it is
                     !.local = [t \in Conn |->
                               IF st.pc[t] \in {"getnicks", "getnicks_reply"}
                                  /\ st.local[t].quark = st.quark[s]
                                  /\ "quarkobject" \notin DOMAIN st.local[t]
                               THEN [quark |-> st.local[t].quark,
                                     sequence |-> st.local[t].sequence,
                                     i |-> st.local[t].i,
                                     quarkobject |-> qo]
                               ELSE @[t]]]
             msg == reply(NegSeqChat, <<"chat", "System", "Quark id", qo.quark>>)
             b == Enqueue(a, qo.p1client, msg)
             c == Enqueue(b, qo.p2client, msg)
             d == IF qo.p1 = s THEN CloseSocket(c, qo.p2) ELSE c
         IN  IF qo.p2 = s THEN CloseSocket(d, qo.p1) ELSE d
  ELSE st

\* lines 1384-1452
FinishPlayer(st, s, myself) ==
  LET a == ResetClient(st, myself)
  IN  IF a.quark[s] \notin DOMAIN a.quarks
      THEN a       \* KeyError at line 1402
      ELSE
        LET qo == a.quarks[a.quark[s]]
            mypeer == IF qo.p1 = s /\ qo.p2 # NoConn
                      THEN get_client_from_nick(a, s, a.nick[qo.p2])
                      ELSE IF qo.p2 = s /\ qo.p1 # NoConn
                      THEN get_client_from_nick(a, s, a.nick[qo.p1])
                      ELSE s
        IN  FinishQuark(ResetClient(a, mypeer), s, qo)

\* spectator_leave raises out of finish
FinishRaises(st, s) == Leaves(st, s) /\ PushRaises(st, st.quark[s])

\* lines 1454-1467
FinishEnd(st, s) ==
  IF ~Leaves(st, s)
  THEN [st EXCEPT !.connections = MapDel(@, Host(s)),
                  !.sock[s] = "finished"]
  ELSE IF PushRaises(st, st.quark[s])
  THEN spectator_leave(st, s, st.quark[s])
       \* AttributeError: lines 1462-1467 are not reached
  ELSE [spectator_leave(st, s, st.quark[s]) EXCEPT
          !.connections = MapDel(@, Host(s)), !.sock[s] = "finished"]

\* finish(): myself is the result of get_myclient_from_quark(self.quark)
finish(st, s, myself) ==
  LET members == ChannelClients(st, st.channel[s])
      a == IF s \in members
           THEN LET a1 == EnqueueAll(st, members \ {s},
                                     reply(NegSeqPresence, PartPdu(st, s)))
                    a2 == [a1 EXCEPT !.opponent =
                             [c \in Conn |->
                                IF c \in members /\ @[c] = a1.nick[s]
                                THEN None ELSE @[c]]]
                IN  [a2 EXCEPT !.chanClients[a2.channel[s].name] = @ \ {s}]
           ELSE st
      b == IF a.nick[s] \in DOMAIN a.clients /\ a.clienttype[s] = "client"
           THEN [a EXCEPT !.clients = MapDel(@, a.nick[s])]
           ELSE a
  IN  FinishEnd(IF b.clienttype[s] = "player"
                THEN FinishPlayer(b, s, myself) ELSE b, s)

\* ----------------------------------------------------------- getpeer
\* lines 633-647: up to the test for a full quark.  In a full quark the
\* logging call of line 645 names `response`, which is unbound there: the
\* UnboundLocalError leaves parse and the except of handle calls finish.
getpeer_begin(st, s, q, port, sequence) ==
  LET a == send_ack(st, s, sequence)
      b == [a EXCEPT !.clienttype[s] = "player", !.quark[s] = q,
                     !.fbaport[s] = port]
  IN  IF q \in DOMAIN b.quarks THEN b
      ELSE [b EXCEPT !.quarks = MapPut(@, q, GGPOQuark(q))]

QuarkFull(st, q) == st.quarks[q].p1 # NoConn /\ st.quarks[q].p2 # NoConn

\* lines 662-702, after the polling loop returned peer
getpeer_end(st, s, q, attached, peer, myself) ==
  LET a == [st EXCEPT !.side[s] = st.side[myself]]
      b == [a EXCEPT !.nick[s] = a.nick[myself]]
      qo == b.quarks[q]
      c == IF ~attached THEN b
           ELSE IF b.side[s] = 1 /\ qo.p1 = NoConn
           THEN [b EXCEPT !.quarks[q].p1 = s, !.quarks[q].p1client = myself]
           ELSE IF b.side[s] = 2 /\ qo.p2 = NoConn
           THEN [b EXCEPT !.quarks[q].p2 = s, !.quarks[q].p2client = myself]
           ELSE LET c1 == IF qo.p1 = NoConn
                          THEN [b EXCEPT !.quarks[q].p1 = s,
                                         !.quarks[q].p1client = myself]
                          ELSE b
                IN  IF qo.p2 = NoConn
                    THEN [c1 EXCEPT !.quarks[q].p2 = s,
                                    !.quarks[q].p2client = myself]
                    ELSE c1
      selfchallenge == attached /\ ~(b.side[s] = 1 /\ qo.p1 = NoConn)
                                /\ ~(b.side[s] = 2 /\ qo.p2 = NoConn)
      isp1 == IF c.side[s] = 1 THEN 1 ELSE 0
      pdu == IF holepunch
             THEN <<"peerproxy", IF selfchallenge THEN 7002 ELSE 7001, isp1>>
             ELSE <<"peer", Ip(peer), c.fbaport[peer], isp1>>
  IN  Enqueue(c, s, reply(NegSeqPeer, pdu))

\* ----------------------------------------------------------- actions
\* A connection's thread takes a frame when its socket is open and it is
\* in the loop of handle (lines 371-409).
\* The loop of lines 397-400 parses every complete frame of data, also
\* when a handler that returned normally has run finish.
Ready(s) == \/ sock[s] = "open" /\ pc[s] = "idle"
            \/ pc[s] = "parsing"
\* parse drops the lobby opcodes of a connection that has no nick
Authed(s) == Ready(s) /\ nick[s] # None

\* Lines 378-384: a thread in the loop of handle writes its whole
\* send_queue to its socket, at least every 0.1 s (the select of line 373).
\* No handler reads a queue, so the writes commute with the handlers; they
\* are taken together, right before the next frame is handled.  A queue
\* then holds the frames the last handler put there; the queue of a thread
\* that is blocked in a handler or whose socket is closed keeps its frames.
Drain(st) ==
  [st EXCEPT !.send_queue =
     [t \in Conn |-> IF st.sock[t] = "open" /\ st.pc[t] = "idle"
                     THEN <<>> ELSE @[t]]]
Taken == Drain(Cur)

\* A GGPOClient whose thread has ended and that no registry, no quark and
\* no client refers to is garbage: its fields are those of a new object.
Referenced(st, s) ==
  \/ s \in Range(st.clients)
  \/ s \in Range(st.connections)
  \/ \E c \in Catalog : s \in st.chanClients[c]
  \/ \E t \in Conn \ {s} : s \in Range(st.challenging[t])
  \/ \E t \in Conn : st.pc[t] = "accept" /\ st.local[t].client = s
  \/ \E q \in DOMAIN st.quarks :
        \/ s \in {st.quarks[q].p1, st.quarks[q].p2,
                   st.quarks[q].p1client, st.quarks[q].p2client}
        \/ s \in st.quarks[q].spectators

Collect(st) ==
  LET G == {s \in Conn : st.sock[s] = "done" /\ ~Referenced(st, s)}
      F(f, v) == [s \in Conn |-> IF s \in G THEN v ELSE f[s]]
  IN  [st EXCEPT !.nick = F(@, None), !.status = F(@, 0),
                 !.clienttype = F(@, None),
                 !.previous_status = F(@, NoStatus),
                 !.opponent = F(@, None), !.quark = F(@, NoQuark),
                 !.fbaport = F(@, 0), !.side = F(@, 0),
                 !.send_queue = F(@, <<>>),
                 !.lastmsg = F(@, 0), !.wire = F(@, <<>>),
                 !.channel = [s \in Conn |->
                                IF s \in G THEN PrivateLobby(s) ELSE @[s]],
                 !.challenging = F(@, EmptyMap)]

Step(st) == QueuesOk(st) /\ Becomes(Collect(st))

\* the server accepts a TCP connection: GGPOClient.__init__
\* (the slots of a kind are taken in order)
Accept(s) ==
  /\ sock[s] = "none"
  /\ \A K \in {LobbyConn, EmuConn, WatchConn} :
       s \in K => \A t \in K : t < s => sock[t] # "none"
  /\ Becomes([Cur EXCEPT !.sock[s] = "open"])

DoConnect(s) ==
  /\ Ready(s)
  /\ \E sequence \in ReqSeqInputs : Step(handle_connect(Taken, s, sequence))

\* The requests of a connection.  The sets are the values the clients of
\* a specification send: nicks, passwords, channel names, statuses and
\* sequence numbers.
DoAuth(s, nicks, passwords) ==
  /\ Ready(s)
  /\ \E n \in nicks, password \in passwords, sequence \in ReqSeqInputs :
        Step(handle_auth(Taken, s, n, password, sequence))

DoJoin(s, chans) ==
  /\ Authed(s)
  /\ \E ch \in chans, sequence \in ReqSeqInputs :
        Step(handle_join(Taken, s, ch, sequence))

DoStatus(s, stats, seqs) ==
  /\ Authed(s)
  /\ \E stat \in stats, sequence \in seqs :
        Step(handle_status(Taken, s, stat, sequence))

ChallengeReq(s, n, ch, sequence) ==
  Authed(s) /\ Step(handle_challenge(Taken, s, n, ch, sequence))

DoChallenge(s, nicks, chans) ==
  \E n \in nicks, ch \in chans, sequence \in ReqSeqInputs :
    ChallengeReq(s, n, ch, sequence)

\* (the channel field of an accept frame is not used by handle_accept)
AcceptReq(s, n, sequence) ==
  /\ Authed(s)
  /\ minted < MaxQuarks
  /\ Step(handle_accept(Taken, s, n, channel[s].name, sequence))

DoAccept(s, nicks) ==
  \E n \in nicks, sequence \in ReqSeqInputs : AcceptReq(s, n, sequence)

DeclineReq(s, n, sequence) ==
  Authed(s) /\ Step(handle_decline(Taken, s, n, sequence))

DoDecline(s, nicks) ==
  \E n \in nicks, sequence \in ReqSeqInputs : DeclineReq(s, n, sequence)

CancelReq(s, n, sequence) ==
  Authed(s) /\ Step(handle_cancel(Taken, s, n, sequence))

DoCancel(s, nicks) ==
  \E n \in nicks, sequence \in ReqSeqInputs : CancelReq(s, n, sequence)

\* getpeer up to its polling loop; into a full quark, the exception and
\* the finish it leads to
GetpeerReq(s, q, sequence) ==
  /\ Ready(s)
  /\ LET a == getpeer_begin(Taken, s, q, FbaPort(s), sequence)
     IN  IF QuarkFull(a, q)
         THEN \E myself \in get_myclient_from_quark(a, s, a.quark[s]) :
                Step(finish(a, s, myself))
         ELSE Step([a EXCEPT !.pc[s] = "getpeer",
                             !.local[s] = [quark |-> q]])

DoGetpeer(s) ==
  \E q \in Tokens, sequence \in ReqSeqInputs : GetpeerReq(s, q, sequence)

\* the polling loop of lines 649-655 ends with `peer`, the connection its
\* last round found (self after ten rounds without one), and the rest of
\* getpeer runs with `myself`, the lobby client found at line 662
GetpeerReturnWith(s, peer, myself) ==
  /\ pc[s] \in {"getpeer", "getpeer_detached"}
  /\ LET q == local[s].quark
     IN  /\ peer \in get_peer_from_quark(Taken, s, q) \cup {s}
         /\ myself \in get_myclient_from_quark(Taken, s, q)
         /\ LET a == getpeer_end(Taken, s, q, pc[s] = "getpeer", peer, myself)
            IN  Step([a EXCEPT !.pc[s] = "idle", !.local[s] = EmptyMap])

GetpeerReturn(s) ==
  \E peer \in Conn, myself \in Conn \cup {NoConn} :
    GetpeerReturnWith(s, peer, myself)

\* The loop of handle ends (the peer closed, a socket error, or the socket
\* was closed by a handler), handle closes the socket and
\* BaseRequestHandler.__init__ calls finish.
HandleReturns(s) ==
  /\ pc[s] \in {"idle", "parsing", "returned"}
  /\ \E myself \in get_myclient_from_quark(Taken, s, quark[s]) :
        Step([finish(Taken, s, myself) EXCEPT !.sock[s] = "done",
                                              !.pc[s] = "idle",
                                              !.local[s] = EmptyMap])

Finish(s) ==
  /\ sock[s] \in {"open", "closed", "finished"}
  /\ pc[s] # "returned"
  /\ HandleReturns(s)

\* The ways a connection ends, one by one.
\* a read (line 390) leaves in data the first bytes of a frame
RecvPartial(s) ==
  /\ Ready(s) /\ pc[s] = "idle"
  /\ DOMAIN local[s] = {}
  /\ Step([Taken EXCEPT !.local[s] = [data |-> "partial"]])

\* the remote end closes the connection
RemoteCloses(s) ==
  /\ sock[s] = "open"
  /\ Becomes([Cur EXCEPT !.sock[s] = "shut"])

\* a read or a send raises (lines 384 and 409): finish runs in the loop
ReadFails(s) ==
  /\ Ready(s) /\ pc[s] = "idle"
  /\ \E myself \in get_myclient_from_quark(Taken, s, quark[s]) :
        Step(finish(Taken, s, myself))

\* The loop of handle ends: by the break of line 375 when the socket was
\* closed, by the break of line 393 when a read returned no bytes and
\* data is empty.  With bytes left in data, `if not data` is false after
\* a read of no bytes, and the loop goes round.  Line 411 closes the
\* socket and handle returns.
LoopExit(s) ==
  /\ pc[s] = "idle"
  /\ \/ sock[s] \in {"closed", "finished"}
     \/ sock[s] = "shut" /\ DOMAIN local[s] = {}
  /\ Becomes([Cur EXCEPT !.pc[s] = "returned",
                         !.sock[s] = IF @ = "shut" THEN "closed" ELSE @,
                         !.local[s] = EmptyMap])

\* BaseRequestHandler.__init__ calls finish when handle has returned
LastFinish(s) == pc[s] = "returned" /\ HandleReturns(s)

\* A frame with an opcode parse does not know (dropped at line 344 when
\* the connection has no nick): handle_unknown calls finish and returns,
\* and the loop of lines 397-400 goes on with the frames that arrived in
\* the same read.
DoUnknown(s) ==
  /\ Authed(s)
  /\ \E sequence \in ReqSeqInputs :
     \E myself \in get_myclient_from_quark(Taken, s, quark[s]) :
       LET a == finish(handle_unknown(Taken, s, sequence), s, myself)
       IN  Step([a EXCEPT !.pc[s] = "parsing"])

\* the finish of BaseRequestHandler.__init__ after an exception left
\* handle, where st is the state the finish that raised left behind
FinishAgain(st, s) == [finish(st, s, s) EXCEPT !.sock[s] = "done"]

\* A spectator request.  The AttributeError of a live quark with an empty
\* slot leaves parse; the except of handle (line 409) calls finish, whose
\* spectator_leave raises again: the exception leaves handle and
\* BaseRequestHandler.__init__ calls finish a second time.
SpectatorReq(s, q, sequence) ==
  /\ Ready(s)
  /\ IF q \in DOMAIN quarks /\ PushRaises(Taken, q)
     THEN Step(FinishAgain(finish(handle_spectator(Taken, s, q, sequence),
                                  s, s), s))
     ELSE Step(handle_spectator(Taken, s, q, sequence))

DoSpectator(s, tokens) ==
  \E q \in tokens, sequence \in ReqSeqInputs : SpectatorReq(s, q, sequence)

\* the account a lobby client logs in with
AccountOf(s) == IF s % 2 = 1 THEN "alice" ELSE "bob"

\* The registries: any connection may log in as any user, any number of
\* times, and join any channel.
Next ==
  \/ \E s \in LobbyConn : Accept(s)
  \/ \E s \in LobbyConn : Finish(s)
  \/ \E s \in LobbyConn : DoAuth(s, NickInputs, PasswordInputs)
  \/ \E s \in LobbyConn : DoJoin(s, ChannelInputs)
  \/ \E s \in LobbyConn : DoStatus(s, {0, 1}, ReqSeqInputs)

Spec == Init /\ [][Next]_vars

\* The channels: any connection logs in as any user, joins any channel of
\* the catalog and leaves.
NextChannels ==
  \/ \E s \in LobbyConn : Accept(s)
  \/ \E s \in LobbyConn : Finish(s)
  \/ \E s \in LobbyConn : DoAuth(s, Users, {"pw"})
  \/ \E s \in LobbyConn : DoJoin(s, Catalog)

SpecChannels == Init /\ [][NextChannels]_vars

\* The challenge broker: every client logs in with its own account.
NextChallenge ==
  \/ \E s \in LobbyConn : Accept(s)
  \/ \E s \in LobbyConn : Finish(s)
  \/ \E s \in LobbyConn : DoAuth(s, {AccountOf(s)}, {"pw"})
  \/ \E s \in LobbyConn : DoJoin(s, {"sfiii3n"})
  \/ \E s \in LobbyConn : DoStatus(s, {1, 2}, {0, 5})
  \/ \E s \in LobbyConn : DoChallenge(s, NickInputs, {"sfiii3n"})
  \/ \E s \in LobbyConn : DoAccept(s, NickInputs)
  \/ \E s \in LobbyConn : DoDecline(s, NickInputs)
  \/ \E s \in LobbyConn : DoCancel(s, NickInputs)

SpecChallenge == Init /\ [][NextChallenge]_vars

\* A match: the clients log in with their accounts, meet in one channel and
\* challenge each other (a nick that is logged in, not their own); a client that got a quark starts its emulator,
\* which connects, sends connect and getpeer, and leaves.
Launch(s) ==
  /\ \E c \in LobbyConn : Ip(c) = Ip(s) /\ quark[c] # NoQuark
  /\ Accept(s)

NextMatch ==
  \/ \E s \in LobbyConn : Accept(s)
  \/ \E s \in LobbyConn : DoAuth(s, {AccountOf(s)}, {"pw"})
  \/ \E s \in LobbyConn : DoJoin(s, {"sfiii3n"})
  \/ \E s \in LobbyConn : DoStatus(s, {1}, {0, 5})
  \/ \E s \in LobbyConn : DoChallenge(s, DOMAIN clients \ {nick[s]}, {"sfiii3n"})
  \/ \E s \in LobbyConn : DoAccept(s, Users)
  \/ \E s \in EmuConn : Launch(s)
  \/ \E s \in EmuConn : DoConnect(s)
  \/ \E s \in EmuConn : DoGetpeer(s)
  \/ \E s \in EmuConn : GetpeerReturn(s)
  \/ \E s \in EmuConn : Finish(s)

SpecMatch == Init /\ [][NextMatch]_vars

\* Lobby clients that pair up, move between the channels and leave.
NextLeave ==
  \/ \E s \in LobbyConn : Accept(s)
  \/ \E s \in LobbyConn : DoAuth(s, {AccountOf(s)}, {"pw"})
  \/ \E s \in LobbyConn : DoJoin(s, Catalog)
  \/ \E s \in LobbyConn : DoChallenge(s, DOMAIN clients \ {nick[s]}, Catalog)
  \/ \E s \in LobbyConn : DoAccept(s, Users)
  \/ \E s \in LobbyConn : Finish(s)

SpecLeave == Init /\ [][NextLeave]_vars

\* Lobby clients that log in (a second login under a nick closes the
\* socket of the first), send frames with unknown opcodes and leave.
NextFinish ==
  \/ \E s \in LobbyConn : Accept(s)
  \/ \E s \in LobbyConn : DoAuth(s, Users, {"pw"})
  \/ \E s \in LobbyConn : DoJoin(s, {"sfiii3n"})
  \/ \E s \in LobbyConn : DoUnknown(s)
  \/ \E s \in LobbyConn : Finish(s)

SpecFinish == Init /\ [][NextFinish]_vars

\* Lobby clients whose connections end in the several ways.  The thread
\* of a connection is scheduled again and again (every thread of the
\* server gets the interpreter lock in turn): a loop that can end does.
NextClose ==
  \/ \E s \in LobbyConn : Accept(s)
  \/ \E s \in LobbyConn : DoAuth(s, Users, {"pw"})
  \/ \E s \in LobbyConn : DoJoin(s, {"sfiii3n"})
  \/ \E s \in LobbyConn : RecvPartial(s)
  \/ \E s \in LobbyConn : RemoteCloses(s)
  \/ \E s \in LobbyConn : ReadFails(s)
  \/ \E s \in LobbyConn : LoopExit(s)
  \/ \E s \in LobbyConn : LastFinish(s)

SpecClose ==
  Init /\ [][NextClose]_vars /\ \A s \in LobbyConn : WF_vars(LoopExit(s))

\* A match and its spectators: two lobby clients, their emulators, and
\* spectating emulators.  check_quark_format (lines 157-162) accepts the
\* tokens accept mints; Malformed is a token it rejects.
check_quark_format(q) == q \in Tokens
Malformed == MaxQuarks + 1
SpectateInputs == Tokens \cup {Malformed}

NextWatch ==
  \/ \E s \in LobbyConn : Accept(s)
  \/ \E s \in LobbyConn : DoAuth(s, {AccountOf(s)}, {"pw"})
  \/ \E s \in LobbyConn : DoJoin(s, {"sfiii3n"})
  \/ \E s \in LobbyConn : DoChallenge(s, DOMAIN clients \ {nick[s]}, {"sfiii3n"})
  \/ \E s \in LobbyConn : DoAccept(s, Users)
  \/ \E s \in EmuConn : Launch(s)
  \/ \E s \in EmuConn \cup WatchConn : DoConnect(s)
  \/ \E s \in EmuConn : DoGetpeer(s)
  \/ \E s \in EmuConn : GetpeerReturn(s)
  \/ \E s \in WatchConn : Accept(s)
  \/ \E s \in WatchConn : DoSpectator(s, SpectateInputs)
  \/ \E s \in EmuConn \cup WatchConn : Finish(s)

SpecWatch == Init /\ [][NextWatch]_vars

\* ---------------------------------------------------------- threads
\* ThreadingMixIn gives every connection a thread and no handler takes a
\* lock: a thread may be switched between any two statements.  Here
\* handle_accept runs one statement at a time, and the handlers of the
\* other connections run in between.
DoUsers(s) ==
  /\ Authed(s)
  /\ \E sequence \in ReqSeqInputs : Step(handle_users(Taken, s, sequence))

\* lines 816-828: the test, then either the NACK or the first statement
AcceptBegin(s, nicks) ==
  /\ Authed(s)
  /\ minted < MaxQuarks
  /\ \E n \in nicks, sequence \in ReqSeqInputs :
       LET client == get_client_from_nick(Taken, s, n)
       IN  IF Host(s) \notin DOMAIN Taken.challenging[client]
           THEN Step(handle_accept(Taken, s, n, channel[s].name, sequence))
           ELSE Step([Taken EXCEPT
                        !.pc[s] = "accept",
                        !.minted = Mint(Taken),
                        !.local[s] = [k |-> 1, client |-> client, n |-> n,
                                      q |-> Mint(Taken)]])

\* the next statement of a handle_accept that is under way
AcceptStep(s) ==
  /\ pc[s] = "accept"
  /\ LET l == local[s]
         a == accept_step(l.k, Taken, s, l.client, l.n, l.q)
     IN  Step(IF l.k = AcceptSteps
              THEN [a EXCEPT !.pc[s] = "idle", !.local[s] = EmptyMap]
              ELSE [a EXCEPT !.local[s].k = l.k + 1])

NextThreads ==
  \/ \E s \in LobbyConn : Accept(s)
  \/ \E s \in LobbyConn : DoAuth(s, {AccountOf(s)}, {"pw"})
  \/ \E s \in LobbyConn : DoJoin(s, {"sfiii3n"})
  \/ \E s \in LobbyConn : DoChallenge(s, DOMAIN clients \ {nick[s]}, {"sfiii3n"})
  \/ \E s \in LobbyConn : AcceptBegin(s, DOMAIN clients)
  \/ \E s \in LobbyConn : AcceptStep(s)
  \/ \E s \in LobbyConn : DoUsers(s)
  \/ \E s \in LobbyConn : DoStatus(s, {1}, ReqSeqInputs)
  \/ \E s \in LobbyConn : DoCancel(s, DOMAIN clients)
  \/ \E s \in LobbyConn : Finish(s)

SpecThreads == Init /\ [][NextThreads]_vars

\* ============================================================ claims
\* the frames a step appends to the send_queue of connection t
Enqueued(t) ==
  SubSeq(send_queue'[t], Len(Taken.send_queue[t]) + 1, Len(send_queue'[t]))
Occurs(q, f) == Cardinality({i \in 1..Len(q) : q[i] = f})
OccursSeq(q, sequence) == Cardinality({i \in 1..Len(q) : q[i][1] = sequence})
Connected(s) == sock[s] = "open"

\* C1: a challenge(nick, channel) succeeds exactly when the named nick is
\* the nick of a session that is available and in the challenger's channel,
\* the channel argument names that channel and the challenger is not
\* playing.  Then the challenger is ACKed, its side is 1, the target is
\* recorded under its host and one challenge-notice is enqueued to it;
\* otherwise the challenger gets NACK 0x0A, nobody gets a notice and no
\* challenging map changes.
C1_ChallengeOutcome ==
  [][\A s \in LobbyConn, n \in NickInputs, ch \in ChannelInputs,
       sequence \in ReqSeqInputs :
       ChallengeReq(s, n, ch, sequence) =>
         IF /\ n \in DOMAIN clients
            /\ status[clients[n]] = 0
            /\ channel[clients[n]] = channel[s]
            /\ channel[s].name = ch
            /\ status[s] # 2
         THEN LET target == clients[n]
                  notice == reply(NegSeqChallenge, <<"challenge", nick[s], ch>>)
              IN  /\ Occurs(Enqueued(s), reply(sequence, ACK)) = 1
                  /\ side'[s] = 1
                  /\ challenging'[s] = MapPut(challenging[s], Host(target), target)
                  /\ Occurs(Enqueued(target), notice) = 1
                  /\ \A t \in Conn \ {target} : OccursSeq(Enqueued(t), NegSeqChallenge) = 0
         ELSE /\ Enqueued(s) = <<reply(sequence, NACK(NackChallenge))>>
              /\ \A t \in Conn \ {s} : Enqueued(t) = <<>>
              /\ challenging' = challenging
              /\ side' = side
    ]_vars

\* C2: accept(challenger_nick) by B succeeds only if B's host is a key of
\* the challenging map of the session that holds that nick; otherwise B
\* gets NACK 0x0C and no session changes.  On success the entry is removed,
\* B.side = 2, the two are each other's opponent, both are playing, both
\* have the same newly minted quark and each gets one quark push with it.
C2_AcceptOutcome ==
  [][\A s \in LobbyConn, n \in NickInputs, sequence \in ReqSeqInputs :
       AcceptReq(s, n, sequence) =>
         IF n \in DOMAIN clients /\ Host(s) \in DOMAIN challenging[clients[n]]
         THEN LET c == clients[n]
                  q == quark'[s]
              IN  /\ challenging'[c] = MapDel(challenging[c], Host(s))
                  /\ side'[s] = 2
                  /\ opponent'[s] = nick[c]
                  /\ opponent'[c] = nick[s]
                  /\ status'[s] = 2 /\ status'[c] = 2
                  /\ q # NoQuark /\ quark'[c] = q
                  /\ q \notin DOMAIN quarks
                  /\ \A t \in Conn : quark[t] # q
                  /\ \A t \in {s, c} :
                       /\ OccursSeq(Enqueued(t), NegSeqQuark)
                            = (IF s = c THEN 2 ELSE 1)
                       /\ \A i \in 1..Len(Enqueued(t)) :
                            Enqueued(t)[i][1] = NegSeqQuark
                              => Enqueued(t)[i][2][4][3] = q
         ELSE /\ Enqueued(s) = <<reply(sequence, NACK(NackAccept))>>
              /\ \A t \in Conn \ {s} : Enqueued(t) = <<>>
              /\ UNCHANGED <<nick, status, clienttype, previous_status,
                             opponent, quark, side, channel, challenging>>
    ]_vars

\* the status finish gives back to a lobby client (lines 1394-1397)
Restored(prev) == IF prev # NoStatus /\ prev # 2 THEN prev ELSE 0

\* C3: a successful accept leaves in previous_status of both lobby
\* sessions the status each had right before it; and when the first player
\* connection of the match ends, both lobby sessions of the match are
\* restored: status is the stashed one (available if that was playing or
\* none), opponent and quark are cleared, side is 0.
C3_StashAndRestore ==
  [][\A s \in LobbyConn, e \in EmuConn, n \in NickInputs,
        sequence \in ReqSeqInputs :
       LET c == get_client_from_nick(Cur, s, n)
           Stash == (AcceptReq(s, n, sequence)
                       /\ Host(s) \in DOMAIN challenging[c])
                      => /\ previous_status'[s] = status[s]
                         /\ previous_status'[c] = status[c]
           Restore == (Finish(e) /\ clienttype[e] = "player"
                         /\ quark[e] # NoQuark)
                        => \A l \in LobbyConn :
                             (/\ Connected(l) /\ clienttype[l] = "client"
                              /\ quark[l] = quark[e])
                               => /\ status'[l] = Restored(previous_status[l])
                                  /\ opponent'[l] = None
                                  /\ quark'[l] = NoQuark
                                  /\ side'[l] = 0
       IN  Stash /\ Restore
    ]_vars

\* C5: for every quark in the quark map, a non-empty p1/p2 is a player
\* connection whose quark is that token, and p1client/p2client are lobby
\* sessions of role client whose quark is that token and whose status is
\* playing.
C5_QuarkMap ==
  \A q \in DOMAIN quarks :
    /\ \A e \in {quarks[q].p1, quarks[q].p2} \ {NoConn} :
         clienttype[e] = "player" /\ quark[e] = q
    /\ \A c \in {quarks[q].p1client, quarks[q].p2client} \ {NoConn} :
         clienttype[c] = "client" /\ quark[c] = q /\ status[c] = 2

\* C6: a connected lobby session whose status is playing has an opponent.
C6_PlayingHasOpponent ==
  \A s \in Conn :
    (Connected(s) /\ clienttype[s] = "client" /\ status[s] = 2)
      => opponent[s] # None

\* C7: a connected session of role client has its nick as a key of the
\* nick map, and that key maps to this session.
C7_ClientRegistered ==
  \A s \in Conn :
    (Connected(s) /\ clienttype[s] = "client")
      => nick[s] \in DOMAIN clients /\ clients[nick[s]] = s

\* C8: the nick map is one-to-one: the session under a key has that key as
\* its nick, and no session is the value of two keys.
C8_NickMapOneToOne ==
  \A n \in DOMAIN clients :
    /\ nick[clients[n]] = n
    /\ \A m \in DOMAIN clients : clients[m] = clients[n] => m = n

\* C9: a session is in the member set of at most one catalog channel, and
\* the channel it is a member of is its current channel.
C9_OneChannel ==
  \A s \in Conn :
    /\ Cardinality({c \in Catalog : s \in chanClients[c]}) <= 1
    /\ \A c \in Catalog :
         s \in chanClients[c] => channel[s] = CatalogChannel(c)

\* a session left one catalog channel for another, where it is a member
\* now, and a member of the channel it left was told
C9_Moved ==
  \E s \in Conn, t \in Conn, c \in Catalog, d \in Catalog :
    /\ s # t /\ c # d
    /\ s \in chanClients[c] /\ t \in chanClients[d]
    /\ Occurs(send_queue[t], reply(NegSeqPresence, <<"part", nick[s]>>)) = 1
    /\ channel[s] = CatalogChannel(c)

\* C10: every key of the challenging map of a connected session is the
\* host of a connected session (the one recorded under it).
C10_ChallengedIsConnected ==
  \A a \in Conn :
    Connected(a) =>
      \A h \in DOMAIN challenging[a] :
        Host(challenging[a][h]) = h /\ Connected(challenging[a][h])

\* a handler of connection t runs: one of those of NextThreads
OtherHandler(t) ==
  \/ DoUsers(t)
  \/ DoStatus(t, {1}, ReqSeqInputs)
  \/ DoCancel(t, DOMAIN clients)
  \/ DoChallenge(t, DOMAIN clients \ {nick[t]}, {"sfiii3n"})
  \/ AcceptBegin(t, DOMAIN clients)
  \/ Finish(t)

\* C4: the pairing done by accept is atomic with respect to the handlers
\* of the other connections: once its first statement has run and until
\* its last one has, no handler of another connection runs (so none
\* observes one of the two sessions updated and the other not).
C4_AcceptAtomic ==
  [][\A s \in LobbyConn, t \in LobbyConn :
       (s # t /\ pc[s] = "accept" /\ local[s].k > 1) => ~OtherHandler(t)
    ]_vars

\* C16: decline(challenger_nick) by B succeeds only if B's host is a key of
\* the challenging map of the session that holds that nick.  Then exactly
\* that entry is removed (so an accept naming the same challenger is
\* refused until a new challenge), B is ACKed and one decline-notice with
\* B's nick is enqueued to the challenger; otherwise B gets NACK 0x0D, no
\* entry is removed and no notice is enqueued.
C16_DeclineOutcome ==
  [][\A s \in LobbyConn, n \in NickInputs, sequence \in ReqSeqInputs :
       DeclineReq(s, n, sequence) =>
         IF n \in DOMAIN clients /\ Host(s) \in DOMAIN challenging[clients[n]]
         THEN LET c == clients[n]
                  notice == reply(NegSeqDecline, <<"decline", nick[s]>>)
              IN  /\ challenging' = [challenging EXCEPT ![c] = MapDel(@, Host(s))]
                  /\ Host(s) \notin DOMAIN challenging'[c]
                  /\ Occurs(Enqueued(s), reply(sequence, ACK)) = 1
                  /\ Occurs(Enqueued(c), notice) = 1
                  /\ \A t \in Conn \ {c} : OccursSeq(Enqueued(t), NegSeqDecline) = 0
         ELSE /\ Enqueued(s) = <<reply(sequence, NACK(NackDecline))>>
              /\ \A t \in Conn \ {s} : Enqueued(t) = <<>>
              /\ challenging' = challenging
    ]_vars

\* C17: cancel(target_nick) by A succeeds only if the host of the session
\* that holds that nick is a key of A.challenging.  Then exactly that entry
\* is removed (so an accept or decline of the target naming A is refused),
\* A is ACKed and one cancel-notice with A's nick is enqueued to the
\* target; otherwise A gets NACK 0x0E and nothing changes.
C17_CancelOutcome ==
  [][\A s \in LobbyConn, n \in NickInputs, sequence \in ReqSeqInputs :
       CancelReq(s, n, sequence) =>
         IF n \in DOMAIN clients /\ Host(clients[n]) \in DOMAIN challenging[s]
         THEN LET c == clients[n]
                  notice == reply(NegSeqCancel, <<"cancel", nick[s]>>)
              IN  /\ challenging' = [challenging EXCEPT ![s] = MapDel(@, Host(c))]
                  /\ Host(c) \notin DOMAIN challenging'[s]
                  /\ Occurs(Enqueued(s), reply(sequence, ACK)) = 1
                  /\ Occurs(Enqueued(c), notice) = 1
                  /\ \A t \in Conn \ {c} : OccursSeq(Enqueued(t), NegSeqCancel) = 0
         ELSE /\ Enqueued(s) = <<reply(sequence, NACK(NackCancel))>>
              /\ \A t \in Conn \ {s} : Enqueued(t) = <<>>
              /\ UNCHANGED <<nick, status, clienttype, previous_status,
                             opponent, quark, side, channel, challenging,
                             clients, chanClients>>
    ]_vars

\* C18: a getpeer that names a quark whose p1 and p2 are both filled closes
\* the socket of the requester and leaves the quark (p1, p2, p1client,
\* p2client, spectators) and the status, opponent, quark and side of every
\* lobby client as they were.
C18_FullQuarkRejected ==
  [][\A e \in EmuConn, q \in Tokens, sequence \in ReqSeqInputs :
       (/\ q \in DOMAIN quarks
        /\ QuarkFull(Cur, q)
        /\ GetpeerReq(e, q, sequence))
         => /\ sock'[e] # "open"
            /\ q \in DOMAIN quarks' /\ quarks'[q] = quarks[q]
            /\ \A l \in LobbyConn :
                 clienttype[l] = "client"
                   => /\ status'[l] = status[l] /\ opponent'[l] = opponent[l]
                      /\ quark'[l] = quark[l] /\ side'[l] = side[l]
    ]_vars

\* The emulator e of the lobby client own and the emulator p of the lobby
\* client other, in the match of quark q that own and other play: both
\* emulators have sent getpeer(q), e is in its polling loop.
EmulatorsOfMatch(e, p, own, other, q) ==
  /\ e # p /\ own # other
  /\ Ip(e) = Ip(own) /\ Ip(p) = Ip(other)
  /\ Connected(own) /\ Connected(other)
  /\ clienttype[own] = "client" /\ clienttype[other] = "client"
  /\ quark[own] = q /\ quark[other] = q
  /\ opponent[own] = nick[other] /\ opponent[other] = nick[own]
  /\ {side[own], side[other]} = {1, 2}
  /\ pc[e] = "getpeer" /\ local[e].quark = q
  /\ Connected(p) /\ clienttype[p] = "player" /\ quark[p] = q

\* C19: in direct mode, when the two emulators of a match between two
\* distinct lobby clients have both sent getpeer for the quark and the
\* polling loop of one ends with a round that ran while the other was
\* there, that emulator is sent exactly one peer push (0xFFFFFFF9), with
\* the IP and the fba_port of the other emulator and is_p1 = 1 for the
\* challenger's emulator, 0 for the acceptor's; and it fills quark.p1
\* (challenger) or quark.p2 (acceptor) with itself and its lobby client,
\* whose side and nick it takes.
C19_PeerAddress ==
  [][\A e \in EmuConn, p \in EmuConn, own \in LobbyConn, other \in LobbyConn,
        q \in Tokens, peer \in Conn, myself \in Conn :
       (/\ ~holepunch
        /\ EmulatorsOfMatch(e, p, own, other, q)
        /\ peer \in get_peer_from_quark(Taken, e, q)
        /\ GetpeerReturnWith(e, peer, myself))
         => LET isp1 == IF side[own] = 1 THEN 1 ELSE 0
                Push == /\ OccursSeq(Enqueued(e), NegSeqPeer) = 1
                        /\ Occurs(Enqueued(e),
                                  reply(NegSeqPeer,
                                        <<"peer", Ip(p), fbaport[p], isp1>>)) = 1
                Slot == /\ side'[e] = side[own] /\ nick'[e] = nick[own]
                        /\ q \in DOMAIN quarks'
                        /\ IF side[own] = 1
                           THEN quarks'[q].p1 = e /\ quarks'[q].p1client = own
                           ELSE quarks'[q].p2 = e /\ quarks'[q].p2client = own
            IN  Push /\ Slot
    ]_vars

\* C11: every connected session in role player or spectator has a quark
\* that is a key of the quark map, unless it is a spectator that replays
\* an archived quark, whose token check_quark_format accepts (the archive
\* files of every well-formed token are taken to exist); a spectator
\* request for an absent, malformed token leaves the role as it was.
C11_LiveOrArchived ==
  \A s \in Conn :
    (Connected(s) /\ clienttype[s] \in {"player", "spectator"})
      => \/ quark[s] \in DOMAIN quarks
         \/ clienttype[s] = "spectator" /\ check_quark_format(quark[s])

\* C20: a spectator request for a quark of the map adds the session to the
\* quark's spectator set and enqueues the count push (0xFFFFFFF6, payload
\* the size of the set after the join + 1) once to the emulator of each
\* player of the quark and to every spectator; the joiner gets the ACK,
\* 0xFFFFFFF5 and then that count.  When a member of a spectator set
\* terminates, the count of the set without it (+ 1) is enqueued once to
\* the players' emulators and to the spectators that remain.
C20_SpectatorCount ==
  [][\A s \in WatchConn, q \in Tokens, sequence \in ReqSeqInputs :
       LET PlayersOf == {e \in EmuConn : /\ Connected(e)
                                         /\ clienttype[e] = "player"
                                         /\ quark[e] = q}
           Count(n) == reply(NegSeqSpectators, <<"spectators", n + 1>>)
           Told(set, f) ==
             \A t \in PlayersOf \cup set : Occurs(Enqueued(t), f) = 1
           Join ==
             (q \in DOMAIN quarks /\ SpectatorReq(s, q, sequence))
               => LET after == quarks[q].spectators \cup {s}
                      f == Count(Cardinality(after))
                  IN  /\ q \in DOMAIN quarks'
                      /\ quarks'[q].spectators = after
                      /\ Told(after, f)
                      /\ Enqueued(s) = <<reply(sequence, ACK),
                                         reply(NegSeqSpectate, <<"spectate">>),
                                         f>>
           Leave ==
             (Leaves(Cur, s) /\ quark[s] = q /\ Finish(s))
               => LET after == quarks[q].spectators \ {s}
                  IN  /\ q \in DOMAIN quarks'
                      /\ quarks'[q].spectators = after
                      /\ Told(after, Count(Cardinality(after)))
       IN  Join /\ Leave
    ]_vars

\* C15: when the last finish of a session that has a nick has run, no
\* other connected session has that nick as its opponent, in whatever
\* channel it is,
\* and the session is in no channel's member set, is no value of the nick
\* map under any key, is not in the connections map and is in no quark's
\* spectator set.
C15_NothingLeft ==
  [][\A s \in Conn :
       (nick[s] # None /\ Finish(s))
         => /\ \A t \in Conn \ {s} :
                 sock'[t] = "open" => opponent'[t] # nick[s]
            /\ \A c \in Catalog : s \notin chanClients'[c]
            /\ s \notin Range(clients')
            /\ s \notin Range(connections')
            /\ \A q \in DOMAIN quarks' : s \notin quarks'[q].spectators
    ]_vars

\* C12: when an emulator that is p1 or p2 of a quark of the map
\* terminates, the quark is removed from the map, the system chat
\* "Quark id: <token>" is enqueued once to each lobby client of the quark,
\* and the socket of the peer emulator is closed; the termination of an
\* emulator whose quark was removed already enqueues no such chat.
C12_QuarkEnds ==
  [][\A e \in EmuConn, q \in Tokens :
       LET Chat == reply(NegSeqChat, <<"chat", "System", "Quark id", q>>)
           First ==
             (/\ q \in DOMAIN quarks
              /\ clienttype[e] = "player" /\ quark[e] = q
              /\ e \in {quarks[q].p1, quarks[q].p2}
              /\ Finish(e))
               => /\ q \notin DOMAIN quarks'
                  /\ \A c \in {quarks[q].p1client, quarks[q].p2client} \ {NoConn} :
                       Occurs(Enqueued(c), Chat) = 1
                  /\ \A p \in {quarks[q].p1, quarks[q].p2} \ {e, NoConn} :
                       sock'[p] # "open"
           Second ==
             (/\ q \notin DOMAIN quarks
              /\ clienttype[e] = "player" /\ quark[e] = q
              /\ Finish(e))
               => \A c \in LobbyConn : Occurs(Enqueued(c), Chat) = 0
       IN  First /\ Second
    ]_vars

\* C13: finish runs once in the lifetime of a session, whatever makes the
\* session end, and no request frame of the connection is handled after
\* its finish has run.
C13_FinishOnce ==
  [][\A s \in LobbyConn :
       LET Once == (Finish(s) \/ DoUnknown(s)) => sock[s] # "finished"
           NoDispatch ==
             sock[s] = "finished"
               => ~(\/ DoAuth(s, Users, {"pw"})
                    \/ DoJoin(s, {"sfiii3n"})
                    \/ DoUnknown(s))
       IN  Once /\ NoDispatch
    ]_vars

\* C14: whenever the remote end of a connection has closed (a read returns
\* no bytes) or a read or a send has failed, the loop of handle eventually
\* ends, whatever bytes are left in data; the cleanup is what the thread
\* does next.
C14_LoopEnds ==
  \A s \in LobbyConn :
    (sock[s] \in {"shut", "finished"}) ~> (pc[s] = "returned" \/ sock[s] = "done")


\* ------------------------------------------------ relay and recording
\* The frames of lines 472-474 and 510-512.  A relay frame carries the
\* emulator's bytes and no token.
NegSeqGamebuffer == -12
NegSeqSavestate == -13
GamebufferFrame(gamebuf) == reply(NegSeqGamebuffer, <<"gamebuffer", gamebuf>>)
SavestateFrame(gamebuf) ==
  reply(NegSeqSavestate, <<"savestate", "block2", "block1", gamebuf>>)

\* the clients the loops of lines 475-479 and 513-517 select
Watching(st, q, sd) ==
  {c \in Range(st.connections) :
     st.clienttype[c] = "spectator" /\ st.quark[c] = q /\ st.side[c] = sd}

\* lines 497-501: the lines written to the nicknames file, which is opened
\* (and so created or truncated) before the first of them; an empty slot
\* or a nick that is None raises and ends the writing
NickLines(st, qo) ==
  IF qo.p1 = NoConn \/ st.nick[qo.p1] = None THEN <<>>
  ELSE IF qo.p2 = NoConn \/ st.nick[qo.p2] = None THEN <<st.nick[qo.p1]>>
  ELSE <<st.nick[qo.p1], st.nick[qo.p2]>>

\* handle_gamebuffer, lines 469-501, up to its return or to the statement
\* that raises
handle_gamebuffer(st, s, q, gamebuf) ==
  LET response == GamebufferFrame(gamebuf)
      targets == Watching(st, q, 0)
      a == [EnqueueAll(st, targets, response) EXCEPT
              !.side = [c \in Conn |-> IF c \in targets THEN 3 ELSE @[c]]]
  IN  IF q \notin DOMAIN a.quarks THEN a        \* KeyError at line 484
      ELSE IF check_quark_format(q) /\ ~a.quarks[q].recorded
      THEN [a EXCEPT
              !.quarks[q].recorded = TRUE,
              !.files.gamebuffer =
                 IF q \in DOMAIN @ THEN @ ELSE MapPut(@, q, response),
              !.files.nicknames = MapPut(@, q, NickLines(a, a.quarks[q]))]
      ELSE a

\* the KeyError of line 484, the AttributeError or TypeError of lines
\* 499-500
GamebufferRaises(st, q) ==
  \/ q \notin DOMAIN st.quarks
  \/ /\ check_quark_format(q) /\ ~st.quarks[q].recorded
     /\ Len(NickLines(st, st.quarks[q])) < 2

\* handle_savestate without the test of the recorded flag at line 523
handle_savestate_unrecorded(st, s, q, gamebuf, sequence) ==
  LET response == SavestateFrame(gamebuf)
      a == EnqueueAll(send_ack(st, s, sequence), Watching(st, q, 3), response)
  IN  IF q \notin DOMAIN a.quarks THEN a
      ELSE IF check_quark_format(q)
      THEN [a EXCEPT !.files.savestate =
              MapPut(@, q, IF q \in DOMAIN @ THEN Append(@[q], response)
                           ELSE <<response>>)]
      ELSE a

\* handle_savestate, lines 504-532, likewise
handle_savestate(st, s, q, gamebuf, sequence) ==
  LET response == SavestateFrame(gamebuf)
      a == EnqueueAll(send_ack(st, s, sequence), Watching(st, q, 3), response)
  IN  IF q \notin DOMAIN a.quarks THEN a        \* KeyError at line 520
      ELSE IF check_quark_format(q) /\ a.quarks[q].recorded
      THEN [a EXCEPT !.files.savestate =
              MapPut(@, q, IF q \in DOMAIN @ THEN Append(@[q], response)
                           ELSE <<response>>)]
      ELSE a

SavestateRaises(st, q) == q \notin DOMAIN st.quarks

\* what the emulators send as game data, and the longest savestate
\* archive that is followed
GamebufInputs == {"g1", "g2"}
MaxArchive == 2

\* A gamebuffer or savestate request; an exception leaves parse and the
\* except of handle (line 409) calls finish.
GamebufferReq(s, q, gamebuf) ==
  /\ Ready(s)
  /\ IF GamebufferRaises(Taken, q)
     THEN \E myself \in get_myclient_from_quark(Taken, s, quark[s]) :
            Step(finish(handle_gamebuffer(Taken, s, q, gamebuf), s, myself))
     ELSE Step(handle_gamebuffer(Taken, s, q, gamebuf))

DoGamebuffer(s, tokens) ==
  \E q \in tokens, gamebuf \in GamebufInputs : GamebufferReq(s, q, gamebuf)

SavestateReq(s, q, gamebuf, sequence) ==
  /\ Ready(s)
  /\ q \in DOMAIN files.savestate => Len(files.savestate[q]) < MaxArchive
  /\ IF SavestateRaises(Taken, q)
     THEN \E myself \in get_myclient_from_quark(Taken, s, quark[s]) :
            Step(finish(handle_savestate(Taken, s, q, gamebuf, sequence),
                        s, myself))
     ELSE Step(handle_savestate(Taken, s, q, gamebuf, sequence))

DoSavestate(s, tokens) ==
  \E q \in tokens, gamebuf \in GamebufInputs, sequence \in ReqSeqInputs :
    SavestateReq(s, q, gamebuf, sequence)

\* A match that is relayed and recorded: the first lobby client challenges
\* the second, and their emulators send game data while an emulator
\* spectates.
Challenger == CHOOSE s \in LobbyConn : \A t \in LobbyConn : s <= t
Challenged == CHOOSE s \in LobbyConn \ {Challenger} :
                \A t \in LobbyConn \ {Challenger} : s <= t
NextRelay ==
  \/ \E s \in LobbyConn : Accept(s)
  \/ \E s \in LobbyConn : DoAuth(s, {AccountOf(s)}, {"pw"})
  \/ \E s \in LobbyConn : DoJoin(s, {"sfiii3n"})
  \/ DoChallenge(Challenger, {AccountOf(Challenged)}, {"sfiii3n"})
  \/ DoAccept(Challenged, {AccountOf(Challenger)})
  \/ \E s \in EmuConn : Launch(s)
  \/ \E s \in WatchConn : DoConnect(s)
  \/ \E s \in EmuConn : DoGetpeer(s)
  \/ \E s \in EmuConn : GetpeerReturn(s)
  \/ \E s \in EmuConn : DoGamebuffer(s, Tokens)
  \/ \E s \in EmuConn : DoSavestate(s, Tokens)
  \/ \E s \in WatchConn : Accept(s)
  \/ \E s \in WatchConn : DoSpectator(s, Tokens)

SpecRelay == Init /\ [][NextRelay]_vars

\* C21: a gamebuffer of a quark is relayed to every spectator in the
\* quark's spectator set whose side is 0
C21_GamebufferReachesSpectators ==
  [][\A s \in EmuConn, q \in Tokens, gamebuf \in GamebufInputs :
       GamebufferReq(s, q, gamebuf) /\ q \in DOMAIN quarks
       => \A w \in quarks[q].spectators :
            side[w] = 0
            => Occurs(send_queue'[w], GamebufferFrame(gamebuf)) > 0]_vars



\* A match that is recorded: the lobby clients log in and join once, the
\* first challenges the second, and their emulators send getpeer,
\* gamebuffers and savestates, also for a token of no valid format.
NextRecord ==
  \/ \E s \in LobbyConn : Accept(s)
  \/ \E s \in LobbyConn : nick[s] = None /\ DoAuth(s, {AccountOf(s)}, {"pw"})
  \/ \E s \in LobbyConn : channel[s].owner # 0 /\ DoJoin(s, {"sfiii3n"})
  \/ DoChallenge(Challenger, {AccountOf(Challenged)}, {"sfiii3n"})
  \/ DoAccept(Challenged, {AccountOf(Challenger)})
  \/ \E s \in EmuConn : Launch(s)
  \/ \E s \in EmuConn, q \in SpectateInputs, sequence \in ReqSeqInputs :
       GetpeerReq(s, q, sequence)
  \/ \E s \in EmuConn : GetpeerReturn(s)
  \/ \E s \in EmuConn : DoGamebuffer(s, SpectateInputs)
  \/ \E s \in EmuConn : DoSavestate(s, Tokens)

SpecRecord == Init /\ [][NextRecord]_vars


\* C22: a quark whose recorded flag is true has its gamebuffer file and its
\* nicknames file; the flag turns true only for a token of valid format,
\* in the step that finds no flag; a gamebuffer file is written once, with
\* the relay frame of the gamebuffer that arrives when there is none, and
\* never changes afterwards; the savestate file changes only by the
\* savestate relay frame of a quark whose flag is true, appended at its end
C22_Recording ==
  [][LET Archived ==
           \A q \in DOMAIN quarks' :
             quarks'[q].recorded
             => q \in DOMAIN files'.gamebuffer /\ q \in DOMAIN files'.nicknames
         FlagSet ==
           \A q \in DOMAIN quarks' :
             quarks'[q].recorded /\ ~(q \in DOMAIN quarks /\ quarks[q].recorded)
             => /\ check_quark_format(q)
                /\ \E s \in EmuConn, gamebuf \in GamebufInputs :
                     GamebufferReq(s, q, gamebuf)
         WrittenOnce ==
           /\ \A q \in DOMAIN files.gamebuffer :
                /\ q \in DOMAIN files'.gamebuffer
                /\ files'.gamebuffer[q] = files.gamebuffer[q]
           /\ \A q \in DOMAIN quarks \ DOMAIN files.gamebuffer :
              \A s \in EmuConn, gamebuf \in GamebufInputs :
                GamebufferReq(s, q, gamebuf) /\ check_quark_format(q)
                => /\ q \in DOMAIN files'.gamebuffer
                   /\ files'.gamebuffer[q] = GamebufferFrame(gamebuf)
         Appended ==
           files'.savestate # files.savestate
           => \E s \in EmuConn, q \in DOMAIN quarks, gamebuf \in GamebufInputs :
                /\ quarks[q].recorded
                /\ \E sequence \in ReqSeqInputs :
                     SavestateReq(s, q, gamebuf, sequence)
                /\ files'.savestate =
                     MapPut(files.savestate, q,
                            (IF q \in DOMAIN files.savestate
                             THEN files.savestate[q] ELSE <<>>)
                            \o <<SavestateFrame(gamebuf)>>)
         Kept ==
           \A s \in EmuConn, q \in DOMAIN quarks, gamebuf \in GamebufInputs :
             (\E sequence \in ReqSeqInputs :
                SavestateReq(s, q, gamebuf, sequence))
             => IF quarks[q].recorded /\ check_quark_format(q)
                THEN /\ q \in DOMAIN files'.savestate
                     /\ Len(files'.savestate[q]) > 0
                     /\ files'.savestate[q][Len(files'.savestate[q])]
                          = SavestateFrame(gamebuf)
                ELSE files'.savestate = files.savestate
     IN  Archived /\ FlagSet /\ WrittenOnce /\ Appended /\ Kept]_vars

\* a recorded quark whose archive holds two different savestates, in the
\* order they arrived
C22_Recorded ==
  \E q \in DOMAIN quarks :
    /\ quarks[q].recorded
    /\ q \in DOMAIN files.gamebuffer
    /\ q \in DOMAIN files.savestate
    /\ files.savestate[q] = <<SavestateFrame("g2"), SavestateFrame("g1")>>


\* ----------------------------------------------------------- getnicks
\* sizepad (lines 130-136): a field that holds the value (behind its
\* length), nothing for None; the
\* reply of lines 554-560 and 609-622
sizepad(value) == IF value = None THEN <<>> ELSE <<value>>
NicksReply(sequence, n1, n2, spectators) ==
  reply(sequence, <<"nicks", n1, n2, spectators>>)

\* the bytes of a file that holds frames: a frame takes FrameBytes bytes,
\* and a byte is named by its frame and its place in it
FrameBytes == 200
Encode(frames) ==
  [n \in 1..(Len(frames) * FrameBytes) |->
     <<frames[((n - 1) \div FrameBytes) + 1], ((n - 1) % FrameBytes) + 1>>]

\* f.read(376), lines 584 and 593, at the offset the file object is at
ChunkBytes == 376
\* f.read(), all that is left of the file
ReadAll(bytes, offset) == SubSeq(bytes, offset + 1, Len(bytes))
Read(bytes, offset) ==
  SubSeq(bytes, offset + 1,
         IF offset + ChunkBytes < Len(bytes) THEN offset + ChunkBytes
         ELSE Len(bytes))

\* lines 541-549: the replay of an archived quark goes on
Replayable(st, q) ==
  /\ q \notin DOMAIN st.quarks
  /\ check_quark_format(q)
  /\ q \in DOMAIN st.files.nicknames

\* lines 551-560: nicknames[1] raises IndexError on a file of one line
ReplayRaises(st, q) == Len(st.files.nicknames[q]) < 2

\* lines 551-561, up to the sleep before the first write
getnicks_replay(st, s, q, sequence) ==
  LET nicknames == st.files.nicknames[q]
  IN  [st EXCEPT !.pc[s] = "replay_nicks",
                 !.local[s] =
                    [quark |-> q,
                     response |-> NicksReply(sequence, sizepad(nicknames[1]),
                                             sizepad(nicknames[2]), 0)]]

\* the polling loop of lines 600-605
PollLimit == 30
Filled(qo) == qo.p1 # NoConn /\ qo.p2 # NoConn
NoDeadline(i) == FALSE
Deadline(i) == i >= PollLimit

\* the quark object a getnicks holds: the one in the map, or the one that
\* was in the map when a finish removed it
QuarkObject(st, s) ==
  IF "quarkobject" \in DOMAIN st.local[s] THEN st.local[s].quarkobject
  ELSE st.quarks[st.local[s].quark]

\* auto_spectate, lines 704-718
auto_spectate(st, s) ==
  EnqueueFrames(st, s, <<reply(NegSeqSpectate, <<"spectate">>),
                         reply(NegSeqSpectators, <<"spectators", 1>>)>>)

\* lines 607-630, after the loop ended with i; myself is the result of
\* get_myclient_from_quark at line 628
handle_getnicks_end(st, s, qo, i, sequence, myself) ==
  LET response ==
        IF i < PollLimit
        THEN NicksReply(sequence, sizepad(st.nick[qo.p1]),
                        sizepad(st.nick[qo.p2]), Cardinality(qo.spectators))
        ELSE NicksReply(sequence, sizepad(""), sizepad(""),
                        Cardinality(qo.spectators))
  IN  handle_status(auto_spectate(Enqueue(st, s, response), s), myself, 2, 0)

\* A getnicks request: into the polling loop for a quark of the map, into
\* the replay for an archived one.
GetnicksReq(s, q, sequence) ==
  /\ Ready(s)
  /\ IF q \in DOMAIN quarks
     THEN Step([Taken EXCEPT !.pc[s] = "getnicks",
                             !.local[s] = [quark |-> q, sequence |-> sequence,
                                           i |-> 0]])
     ELSE IF ~Replayable(Taken, q) THEN Step(Taken)
     ELSE IF ReplayRaises(Taken, q)
     THEN \E myself \in get_myclient_from_quark(Taken, s, quark[s]) :
            Step(finish(Taken, s, myself))
     ELSE Step(getnicks_replay(Taken, s, q, sequence))

DoGetnicks(s, tokens) ==
  \E q \in tokens, sequence \in ReqSeqInputs : GetnicksReq(s, q, sequence)

\* one round of the loop: a second of sleep
GetnicksPoll(s) ==
  /\ pc[s] = "getnicks"
  /\ ~Filled(QuarkObject(Cur, s)) /\ ~Deadline(local[s].i)
  /\ Becomes([Cur EXCEPT !.local[s].i = @ + 1])

\* the break of line 603
GetnicksLoopEnds(s) ==
  /\ pc[s] = "getnicks"
  /\ Filled(QuarkObject(Cur, s)) \/ Deadline(local[s].i)
  /\ Becomes([Cur EXCEPT !.pc[s] = "getnicks_reply"])

\* lines 607-630
GetnicksReplyWith(s, myself) ==
  /\ pc[s] = "getnicks_reply"
  /\ myself \in get_myclient_from_quark(Taken, s, local[s].quark)
  /\ LET a == handle_getnicks_end(Taken, s, QuarkObject(Taken, s), local[s].i,
                                  local[s].sequence, myself)
     IN  Step([a EXCEPT !.pc[s] = "idle", !.local[s] = EmptyMap])

GetnicksReply(s) == \E myself \in Conn : GetnicksReplyWith(s, myself)

\* The replay, write by write (the handler sleeps before each).  A write
\* to a socket the remote end has closed may succeed or raise.
ReplayWrite(s) ==
  /\ sock[s] \in {"open", "shut"}
  /\ LET q == local[s].quark
     IN
     \/ /\ pc[s] = "replay_nicks"
        /\ Becomes([Cur EXCEPT
              !.wire[s] = Append(@, local[s].response),
              !.pc[s] = IF q \in DOMAIN files.gamebuffer
                        THEN "replay_gamebuffer" ELSE "idle",
              !.local[s] = IF q \in DOMAIN files.gamebuffer
                           THEN [quark |-> q] ELSE EmptyMap])
     \/ /\ pc[s] = "replay_gamebuffer"
        /\ Becomes([Cur EXCEPT
              !.wire[s] = Append(@, Encode(<<files.gamebuffer[q]>>)),
              !.side[s] = 3,
              !.pc[s] = IF q \in DOMAIN files.savestate
                        THEN "replay_savestate" ELSE "idle",
              !.local[s] = IF q \in DOMAIN files.savestate
                           THEN [quark |-> q, offset |-> 0] ELSE EmptyMap])
     \/ /\ pc[s] = "replay_savestate"
        /\ LET bytes == Encode(files.savestate[q])
               response == Read(bytes, local[s].offset)
               more == local[s].offset + Len(response) < Len(bytes)
           IN  Becomes([Cur EXCEPT
                  !.wire[s] = Append(@, response),
                  !.local[s] = IF more
                               THEN [quark |-> q,
                                     offset |-> local[s].offset + Len(response)]
                               ELSE EmptyMap,
                  \* lines 594-596: the file is at its end
                  !.pc[s] = IF more THEN "replay_savestate" ELSE "idle",
                  !.sock[s] = IF more THEN @ ELSE "closed"])

\* a write raises: out of parse into the except of handle for the first
\* two (line 409), into the except of line 591 for a chunk
ReplayWriteFails(s) ==
  /\ sock[s] \in {"shut", "closed"}
  /\ \/ /\ pc[s] \in {"replay_nicks", "replay_gamebuffer"}
        /\ \E myself \in get_myclient_from_quark(Taken, s, quark[s]) :
             Step([finish(Taken, s, myself) EXCEPT
                     !.pc[s] = "idle", !.local[s] = EmptyMap])
     \/ /\ pc[s] = "replay_savestate"
        /\ Becomes([Cur EXCEPT !.pc[s] = "idle", !.local[s] = EmptyMap,
                               !.sock[s] = "closed"])


\* Replays: the server starts in a quarks directory that earlier matches
\* left (a gamebuffer of "g1", the nicknames, savestates), and emulators
\* spectate and send getnicks, once each.
SavestateInputs ==
  LET s1 == SavestateFrame("g1")
      s2 == SavestateFrame("g2")
  IN  {<<>>, <<s1>>, <<s1, s2>>, <<s1, s2, s2, s1>>}
Archive(q, nicknames, savestates) ==
  [gamebuffer |-> MapPut(EmptyMap, q, GamebufferFrame("g1")),
   nicknames |-> MapPut(EmptyMap, q, nicknames),
   savestate |-> IF savestates = <<>> THEN EmptyMap
                 ELSE MapPut(EmptyMap, q, savestates)]
ReplayArchives ==
  {NoFiles} \cup {Archive(q, n, sv) : q \in Tokens,
                                      n \in {<<"alice", "bob">>, <<"alice">>},
                                      sv \in SavestateInputs}
InitReplay == \E f \in ReplayArchives : Started(f)

Replayers == WatchConn

NextReplay ==
  \/ \E s \in Replayers : Accept(s)
  \/ \E s \in Replayers : DoSpectator(s, SpectateInputs)
  \/ \E s \in Replayers : wire[s] = <<>> /\ DoGetnicks(s, SpectateInputs)
  \/ \E s \in Replayers : ReplayWrite(s)
  \/ \E s \in Replayers : ReplayWriteFails(s)
  \/ \E s \in Replayers : RemoteCloses(s)
  \/ \E s \in Replayers : Finish(s)

SpecReplay == InitReplay /\ [][NextReplay]_vars

\* C23 as stated: the spectator request for an archived token starts the
\* replay
C23_SpectatorStartsReplay ==
  [][\A s \in Replayers, q \in Tokens, sequence \in ReqSeqInputs :
       /\ SpectatorReq(s, q, sequence)
       /\ Replayable(Cur, q) /\ ~ReplayRaises(Cur, q)
       => pc'[s] = "replay_nicks"]_vars

\* the bytes of the chunks before the k-th write
Replayed(w, k) ==
  Cardinality({c \in (3..(k - 1)) \X (1..ChunkBytes) : c[2] <= Len(w[c[1]])})

\* C23: what a session that sent getnicks for an archived token of valid
\* format has received is, in this order, the reply built from the two
\* lines of the nicknames file, the whole gamebuffer file, and chunks of
\* the savestate file, each of 1 to 376 bytes and each starting where the
\* one before ended; its side is 3 from the gamebuffer on; a write is
\* made only by a replay whose socket was not closed by a failed write,
\* and the step that ends a replay of savestates either wrote the last
\* byte of the file or wrote nothing
C23_Replay ==
  [][\A s \in Replayers :
       LET w == wire'[s]
           Ordered ==
             w # <<>>
             => \E q \in DOMAIN files.nicknames :
                  /\ q \notin DOMAIN quarks /\ check_quark_format(q)
                  /\ Len(files.nicknames[q]) >= 2
                  /\ \E sequence \in ReqSeqInputs :
                       w[1] = NicksReply(sequence,
                                         sizepad(files.nicknames[q][1]),
                                         sizepad(files.nicknames[q][2]), 0)
                  /\ Len(w) >= 2
                     => /\ q \in DOMAIN files.gamebuffer
                        /\ w[2] = Encode(<<files.gamebuffer[q]>>)
                  /\ Len(w) >= 3
                     => /\ q \in DOMAIN files.savestate
                        /\ \A k \in 3..Len(w) :
                             /\ Len(w[k]) >= 1 /\ Len(w[k]) <= ChunkBytes
                             /\ w[k] = SubSeq(Encode(files.savestate[q]),
                                              Replayed(w, k) + 1,
                                              Replayed(w, k) + Len(w[k]))
                  /\ pc'[s] = "idle" /\ pc[s] = "replay_savestate"
                     /\ w # wire[s]
                     => Replayed(w, Len(w) + 1)
                          = Len(Encode(files.savestate[q]))
           Promoted == (side'[s] = 3) <=> (Len(w) >= 2)
           Stops ==
             w # wire[s] /\ w # <<>>
             => /\ pc[s] \in {"replay_nicks", "replay_gamebuffer",
                               "replay_savestate"}
                /\ sock[s] # "closed"
                /\ Len(w) = Len(wire[s]) + 1
       IN  Ordered /\ Promoted /\ Stops]_vars

\* a replay that wrote the savestate file in three chunks and closed
C23_Replayed ==
  \E s \in Replayers :
    /\ Len(wire[s]) = 5 /\ side[s] = 3
    /\ pc[s] = "idle" /\ sock[s] = "closed"


\* The nicks of a match: the lobby clients log in and join once, the first
\* challenges the second, and their emulators send getpeer and getnicks.
\* The polling loop sleeps a second per round and ends by itself.
NextNicks ==
  \/ \E s \in LobbyConn : Accept(s)
  \/ \E s \in LobbyConn : nick[s] = None /\ DoAuth(s, {AccountOf(s)}, {"pw"})
  \/ \E s \in LobbyConn : channel[s].owner # 0 /\ DoJoin(s, {"sfiii3n"})
  \/ DoChallenge(Challenger, {AccountOf(Challenged)}, {"sfiii3n"})
  \/ DoAccept(Challenged, {AccountOf(Challenger)})
  \/ \E s \in EmuConn : Launch(s)
  \/ \E s \in EmuConn : DoGetpeer(s)
  \/ \E s \in EmuConn : GetpeerReturn(s)
  \/ \E s \in EmuConn : DoGetnicks(s, Tokens)
  \/ \E s \in EmuConn : GetnicksPoll(s)
  \/ \E s \in EmuConn : GetnicksLoopEnds(s)
  \/ \E s \in EmuConn : GetnicksReply(s)

SpecNicks ==
  /\ Init /\ [][NextNicks]_vars
  /\ \A s \in EmuConn : WF_vars(GetnicksPoll(s)) /\ WF_vars(GetnicksLoopEnds(s))

\* C24: a getnicks on a quark of the map leaves its polling loop after at
\* most 30 rounds; its reply step enqueues to the session exactly one frame
\* with the request's sequence, which carries the nicks of p1 and p2 when
\* the loop ended before the deadline and two zero-length fields when it
\* ended at the deadline; the step raises nothing: the session's socket
\* stays as it is and its thread is back in the loop of handle
C24_Getnicks ==
  /\ [](\A s \in EmuConn :
          pc[s] \in {"getnicks", "getnicks_reply"} => local[s].i <= PollLimit)
  /\ \A s \in EmuConn : pc[s] = "getnicks" ~> pc[s] = "getnicks_reply"
  /\ [][\A s \in EmuConn :
          pc[s] = "getnicks_reply" /\ pc'[s] # "getnicks_reply"
          => LET sequence == local[s].sequence
                 qo == QuarkObject(Cur, s)
                 early == Filled(qo) /\ local[s].i < PollLimit
                 n1 == IF early THEN sizepad(nick[qo.p1]) ELSE sizepad("")
                 n2 == IF early THEN sizepad(nick[qo.p2]) ELSE sizepad("")
             IN  /\ OccursSeq(send_queue'[s], sequence)
                      = OccursSeq(send_queue[s], sequence) + 1
                 /\ Occurs(send_queue'[s],
                           NicksReply(sequence, n1, n2,
                                      Cardinality(qo.spectators)))
                      = Occurs(send_queue[s],
                               NicksReply(sequence, n1, n2,
                                          Cardinality(qo.spectators))) + 1
                 /\ pc'[s] = "idle" /\ sock'[s] = sock[s]]_vars

\* a reply at the deadline, with a slot still empty
C24_DeadlineReply ==
  \E s \in EmuConn :
    /\ pc[s] = "idle"
    /\ \E q \in DOMAIN quarks :
         /\ ~Filled(quarks[q])
         /\ Occurs(send_queue[s],
                   NicksReply(5, sizepad(""), sizepad(""), 0)) = 1


\* ------------------------------------------------------ UDP rendezvous
\* The peers' addresses (two of them behind one IP), and what they send:
\* a token, a token and a newline, "ok", or nothing.
NPeers == 3
Peers == {<<(n % 2) + 1, 7000 + (n \div 2)>> : n \in 1..NPeers}
UdpTokens == {"q1", "q2"}
Datagrams == UdpTokens \cup {"q1\n", "ok", "ok\n", ""}

\* str.strip() on these payloads (line 1719)
strip(data) == IF data = "q1\n" THEN "q1" ELSE IF data = "ok\n" THEN "ok" ELSE data

\* addr2bytes, lines 1704-1716: the four bytes of the host and the two of
\* the port
addr2bytes(addr) == <<"bytes", addr[1], addr[2]>>

\* MyUDPHandler.handle that pairs two peers and keeps the entry
MyUDPHandler_handle_keep(st, client_address, payload) ==
  LET data == strip(payload)
      token == IF data # "ok" THEN data ELSE ""
      sent == IF data # "ok" THEN <<<<<<"ok", token>>, client_address>>>>
              ELSE <<>>
  IN  IF token \in DOMAIN st.quarkqueue
      THEN LET a == st.quarkqueue[token]
               b == client_address
           IN  [st EXCEPT !.sendto = sent \o <<<<addr2bytes(a), b>>,
                                               <<addr2bytes(b), a>>>>]
      ELSE IF token # ""
      THEN [st EXCEPT !.sendto = sent,
                      !.quarkqueue = MapPut(@, token, client_address)]
      ELSE [st EXCEPT !.sendto = sent]

\* MyUDPHandler.handle, lines 1718-1735, with self.quark (here token)
\* = '' from line 1700; sendto becomes what this datagram made the server send
MyUDPHandler_handle(st, client_address, payload) ==
  LET data == strip(payload)
      token == IF data # "ok" THEN data ELSE ""
      sent == IF data # "ok" THEN <<<<<<"ok", token>>, client_address>>>>
              ELSE <<>>
  IN  IF token \in DOMAIN st.quarkqueue
      THEN LET a == st.quarkqueue[token]
               b == client_address
           IN  [st EXCEPT !.sendto = sent \o <<<<addr2bytes(a), b>>,
                                               <<addr2bytes(b), a>>>>,
                          !.quarkqueue = MapDel(@, token)]
      ELSE IF token # ""
      THEN [st EXCEPT !.sendto = sent,
                      !.quarkqueue = MapPut(@, token, client_address)]
      ELSE [st EXCEPT !.sendto = sent]

\* the server handles a datagram
Datagram(client_address, payload) ==
  Becomes(MyUDPHandler_handle(Cur, client_address, payload))

NextRendezvous == \E b \in Peers, payload \in Datagrams : Datagram(b, payload)

SpecRendezvous == Init /\ [][NextRendezvous]_vars

\* C25: a token that has no entry is answered by "ok" and the token, and
\* the sender's address is stored under it; a token that has the entry of
\* another peer is answered by "ok" and the token, then each of the two is
\* sent the address of the other, and the entry is deleted; a datagram
\* "ok" leaves the table as it is
C25_Rendezvous ==
  [][\A b \in Peers, payload \in Datagrams :
       Datagram(b, payload)
       => LET q == strip(payload)
              First ==
                q \in UdpTokens /\ q \notin DOMAIN quarkqueue
                => /\ sendto' = <<<<<<"ok", q>>, b>>>>
                   /\ quarkqueue' = MapPut(quarkqueue, q, b)
              Second ==
                q \in UdpTokens /\ q \in DOMAIN quarkqueue
                /\ quarkqueue[q] # b
                => /\ sendto' = <<<<<<"ok", q>>, b>>,
                                  <<addr2bytes(quarkqueue[q]), b>>,
                                  <<addr2bytes(b), quarkqueue[q]>>>>
                   /\ q \notin DOMAIN quarkqueue'
                   /\ \A r \in DOMAIN quarkqueue \ {q} :
                        r \in DOMAIN quarkqueue'
                        /\ quarkqueue'[r] = quarkqueue[r]
                   /\ DOMAIN quarkqueue' \subseteq DOMAIN quarkqueue
              Ok == q = "ok" => quarkqueue' = quarkqueue
          IN  First /\ Second /\ Ok]_vars

\* two peers were just paired on a token while another token is pending
C25_Paired ==
  /\ Len(sendto) = 3
  /\ sendto[2][2] # sendto[3][2]
  /\ sendto[1][1][2] \notin DOMAIN quarkqueue
  /\ DOMAIN quarkqueue # {}


\* a join request
JoinReq(s, channel_name, sequence) ==
  Authed(s) /\ Step(handle_join(Taken, s, channel_name, sequence))

ChatPush(from, msg) == reply(NegSeqChat, <<"chat", from, msg>>)
SpamPush == ChatPush("System", "Please do not spam")

\* a handle_privmsg that sets lastmsg before it tests it
handle_privmsg_advance(st, s, msg, sequence) ==
  LET a == send_ack(st, s, sequence)
      timestamp == a.now
      b == [a EXCEPT !.lastmsg[s] = timestamp]
  IN  IF timestamp - a.lastmsg[s] < 2
      THEN Enqueue(b, s, SpamPush)
      ELSE EnqueueAll(b, ChannelClients(b, b.channel[s]),
                      ChatPush(b.nick[s], msg))

\* handle_privmsg, lines 1251-1279
handle_privmsg(st, s, msg, sequence) ==
  LET a == send_ack(st, s, sequence)
      timestamp == a.now
  IN  IF timestamp - a.lastmsg[s] < 2
      THEN Enqueue(a, s, SpamPush)
      ELSE LET b == [a EXCEPT !.lastmsg[s] = timestamp]
           IN  EnqueueAll(b, ChannelClients(b, b.channel[s]),
                          ChatPush(b.nick[s], msg))

PrivmsgReq(s, msg, sequence) ==
  Authed(s) /\ Step(handle_privmsg(Taken, s, msg, sequence))

DoPrivmsg(s, msgs) ==
  \E msg \in msgs, sequence \in ReqSeqInputs : PrivmsgReq(s, msg, sequence)

\* a second of the wall clock passes
MaxTicks == 4
Tick ==
  /\ now < Boot + MaxTicks
  /\ Becomes([Cur EXCEPT !.now = @ + 1])

\* The chat of a channel: the clients log in, join and leave, and send
\* messages while the seconds pass.
NextChat ==
  \/ \E s \in LobbyConn : Accept(s)
  \/ \E s \in LobbyConn : nick[s] = None /\ DoAuth(s, {AccountOf(s)}, {"pw"})
  \/ \E s \in LobbyConn : DoJoin(s, {"sfiii3n"})
  \/ \E s \in LobbyConn : DoPrivmsg(s, {"hi"})
  \/ \E s \in LobbyConn : Finish(s)
  \/ Tick

SpecChat == Init /\ [][NextChat]_vars

\* C27: a privmsg is ACKed; when the clock reads at least 2 more than the
\* sender's last-message time, the chat push goes once to every member of
\* the sender's channel (to the sender as one of them) and the
\* last-message time becomes the clock's reading; otherwise the sender
\* gets the ACK and the System push "Please do not spam", nobody else
\* gets anything, and the last-message time stays
C27_RateLimit ==
  [][\A s \in LobbyConn, msg \in {"hi"}, sequence \in ReqSeqInputs :
       PrivmsgReq(s, msg, sequence)
       => LET members == ChannelClients(Cur, channel[s])
              Acked == /\ Len(Enqueued(s)) >= 1
                       /\ Enqueued(s)[1] = reply(sequence, ACK)
              Outcome ==
                IF now - lastmsg[s] >= 2
                THEN /\ \A m \in members :
                          Occurs(Enqueued(m), ChatPush(nick[s], msg)) = 1
                     /\ \A m \in Conn : Occurs(Enqueued(m), SpamPush) = 0
                     /\ lastmsg'[s] = now
                ELSE /\ Enqueued(s) = <<reply(sequence, ACK), SpamPush>>
                     /\ \A m \in Conn \ {s} : Enqueued(m) = <<>>
                     /\ lastmsg'[s] = lastmsg[s]
          IN  Acked /\ Outcome]_vars

\* a member of a channel of two whose message came one second after its
\* last one and was blocked
C27_Blocked ==
  \E s \in LobbyConn :
    /\ lastmsg[s] = now - 1
    /\ send_queue[s] = <<reply(5, ACK), SpamPush>>
    /\ \E m \in ChannelClients(Cur, channel[s]) \ {s} : sock[m] = "open"
    /\ s \in ChannelClients(Cur, channel[s])


\* C28: the NACK 0x08 of an unknown opcode is written to the client before
\* the connection is terminated: no connection whose socket the server
\* has closed still holds that NACK in its send queue, where nothing will
\* write it
C28_NackDelivered ==
  \A s \in LobbyConn, sequence \in ReqSeqInputs :
    sock[s] \in {"finished", "done"}
    => Occurs(send_queue[s], reply(sequence, NACK(NackUnknown))) = 0


\* ------------------------------------------------------- the reader
\* A frame on the wire: four bytes of length L, then L bytes, which are
\* the sequence number, the opcode of connect and padding.  The streams a
\* client sends hold up to MaxFrames frames; a frame of length 4 ends
\* before its opcode.
MaxFrames == 3
LengthInputs == {4, 8, 10}
Pad(n) == [k \in 1..n |-> 0]
Frame(length, sequence) ==
  <<0, 0, 0, length>>
  \o SubSeq(<<0, 0, 0, sequence, 0, 0, 0, 0>> \o Pad(length), 1, length)
StreamInputs ==
  UNION {[1..n -> LengthInputs] : n \in 1..MaxFrames}
\* the bytes of a stream of frames, whose sequence numbers count from 1
StreamBytes(lengths) ==
  LET F(k) == IF k <= Len(lengths) THEN Frame(lengths[k], k) ELSE <<>>
  IN  F(1) \o F(2) \o F(3) \o F(4)
\* where the k-th frame of the stream ends
FrameEnd(lengths, k) ==
  LET W(j) == IF j <= k /\ j <= Len(lengths) THEN lengths[j] + 4 ELSE 0
  IN  W(1) + W(2) + W(3) + W(4)

\* int(data[0:4].encode('hex'), 16), lines 397-401 and 196: the number the
\* first four bytes spell, or the fewer bytes there are; ValueError (-1)
\* on no byte at all
HexInt(data) ==
  LET b == SubSeq(data, 1, IF Len(data) < 4 THEN Len(data) ELSE 4)
  IN  IF Len(b) = 0 THEN -1
      ELSE IF Len(b) = 1 THEN b[1]
      ELSE IF Len(b) = 2 THEN b[1] * 256 + b[2]
      ELSE IF Len(b) = 3 THEN (b[1] * 256 + b[2]) * 256 + b[3]
      ELSE ((b[1] * 256 + b[2]) * 256 + b[3]) * 256 + b[4]

\* parse (lines 191-365) of one whole frame, in the state r of the loop: a
\* frame shorter than 8 leaves `response` unbound and line 365 raises
\* UnboundLocalError; the opcode of these frames is connect
parse(r, s, frame) ==
  LET length == HexInt(frame)
  IN  IF length < 8
      THEN [r EXCEPT !.parsed = Append(@, [length |-> length]),
                     !.raised = TRUE]
      ELSE LET sequence == HexInt(SubSeq(frame, 5, 8))
           IN  [r EXCEPT
                  !.st = handle_connect(@, s, sequence),
                  !.parsed = Append(@, [length |-> length,
                                        sequence |-> sequence])]

\* one round of the loop of lines 397-400
WhileRound(r, s) ==
  IF ~r.raised /\ Len(r.data) - 4 > HexInt(r.data)
  THEN LET length == HexInt(r.data)
           p == parse(r, s, SubSeq(r.data, 1, length + 4))
       IN  IF p.raised THEN p
           ELSE [p EXCEPT !.data = SubSeq(@, length + 5, Len(@))]
  ELSE r

\* lines 402-404
LastFrame(r, s) ==
  IF ~r.raised /\ Len(r.data) - 4 = HexInt(r.data)
  THEN LET p == parse(r, s, r.data)
       IN  IF p.raised THEN p ELSE [p EXCEPT !.data = <<>>]
  ELSE r

\* lines 390-404 after a read that left data in the buffer: the loop goes
\* round once per whole frame that another byte follows
ReadLoop(st, s, data, parsed) ==
  LastFrame(WhileRound(WhileRound(WhileRound(
      [st |-> st, data |-> data, parsed |-> parsed, raised |-> FALSE],
      s), s), s), s)

\* a client writes a stream of frames to its connection
Sends(s, lengths) ==
  /\ sock[s] = "open" /\ pc[s] = "idle" /\ DOMAIN local[s] = {}
  /\ Becomes([Cur EXCEPT !.local[s] =
        [lengths |-> lengths, pos |-> 0, data |-> <<>>, parsed |-> <<>>]])

\* the end of a read of n bytes: the state the loop leaves, or the finish
\* of line 409 when parse raised
Received(r, s, n) ==
  IF r.raised
  THEN [finish(r.st, s, s) EXCEPT
          !.local[s] = [lengths |-> local[s].lengths,
                        pos |-> local[s].pos + n,
                        data |-> r.data, parsed |-> r.parsed]]
  ELSE [r.st EXCEPT
          !.local[s] = [lengths |-> local[s].lengths,
                        pos |-> local[s].pos + n,
                        data |-> r.data, parsed |-> r.parsed]]

\* recv returns the next n bytes of the stream (line 390)
Recv(s, n) ==
  /\ sock[s] = "open" /\ pc[s] = "idle"
  /\ "lengths" \in DOMAIN local[s]
  /\ n >= 1
  /\ local[s].pos + n <= Len(StreamBytes(local[s].lengths))
  /\ Step(Received(
        ReadLoop(Taken, s,
                 local[s].data \o SubSeq(StreamBytes(local[s].lengths),
                                         local[s].pos + 1, local[s].pos + n),
                 local[s].parsed),
        s, n))

Reader == CHOOSE s \in LobbyConn : \A t \in LobbyConn : s <= t

NextReader ==
  \/ Accept(Reader)
  \/ \E lengths \in StreamInputs : Sends(Reader, lengths)
  \/ \E n \in 1..(MaxFrames * 14) : Recv(Reader, n)

SpecReader == Init /\ [][NextReader]_vars

MaxWire == 5

\* a msg = self.send_queue.pop() that takes the newest frame
pop_last(st, s) ==
  [st EXCEPT !.local[s] = [msg |-> st.send_queue[s][Len(st.send_queue[s])]],
             !.send_queue[s] = SubSeq(@, 1, Len(@) - 1),
             !.pc[s] = "sending"]

\* msg = self.send_queue.pop(0), line 379
pop(st, s) ==
  [st EXCEPT !.local[s] = [msg |-> Head(st.send_queue[s])],
             !.send_queue[s] = Tail(@),
             !.pc[s] = "sending"]

\* the test of line 378 after a send
LoopTest(st, s) == IF st.send_queue[s] # <<>> THEN "flush" ELSE "idle"

Pop(s) ==
  /\ pc[s] \in {"idle", "flush"} /\ sock[s] \in {"open", "finished"}
  /\ DOMAIN local[s] = {}
  /\ send_queue[s] # <<>>
  /\ Becomes(pop(Cur, s))

\* self.request.send(msg) returns, line 382: the socket is a blocking one
Write(s) ==
  /\ pc[s] = "sending" /\ sock[s] = "open"
  /\ Becomes([Cur EXCEPT !.wire[s] = Append(@, local[s].msg),
                         !.local[s] = EmptyMap,
                         !.pc[s] = LoopTest(Cur, s)])

\* the send raises (the peer reset the connection, or finish has closed
\* the socket): line 384 calls finish and the frame is lost
WriteFails(s) ==
  /\ pc[s] = "sending"
  /\ Step([finish([Cur EXCEPT !.local[s] = EmptyMap], s, s)
             EXCEPT !.pc[s] = LoopTest(Cur, s)])

\* the frames of a connection in the lobby: what its socket has taken,
\* the frame its thread holds, and its queue
InHand(s) == IF pc[s] = "sending" THEN <<local[s].msg>> ELSE <<>>
Line(s) == wire[s] \o InHand(s) \o send_queue[s]
IsPrefix(a, b) == Len(a) <= Len(b) /\ a = SubSeq(b, 1, Len(a))

\* the requests of this section are handled while every connection has
\* few frames written and queued
Short(st) ==
  \A t \in Conn : Len(st.wire[t]) + Len(st.send_queue[t]) <= MaxWire

Reading(s) == sock[s] = "open" /\ pc[s] = "idle" /\ DOMAIN local[s] = {}

ReadAuth(s) ==
  /\ Reading(s) /\ nick[s] = None
  /\ \E sequence \in ReqSeqInputs :
       LET a == handle_auth(Cur, s, AccountOf(s), Password(AccountOf(s)),
                            sequence)
       IN  Short(a) /\ Step(a)

ReadJoin(s) ==
  /\ Reading(s) /\ nick[s] # None /\ channel[s].owner # 0
  /\ \E sequence \in ReqSeqInputs :
       LET a == handle_join(Cur, s, "lobby", sequence)
       IN  Short(a) /\ Step(a)

ReadStatus(s) ==
  /\ Reading(s) /\ nick[s] # None
  /\ \E stat \in {0, 1}, sequence \in SeqInputs :
       LET a == handle_status(Cur, s, stat, sequence)
       IN  Short(a) /\ Step(a)

NextSend ==
  \E s \in LobbyConn :
    \/ Accept(s)
    \/ ReadAuth(s)
    \/ ReadJoin(s)
    \/ ReadStatus(s)
    \/ Pop(s)
    \/ Write(s)
    \/ WriteFails(s)

SpecSend == Init /\ [][NextSend]_vars

\* C29: while the sends of a connection succeed, every step leaves the
\* frames of the connection in the order they have (new frames come last,
\* whichever thread appends them and wherever the owner is in its write
\* loop), and the socket takes them one at a time from the front: the
\* frame the owner holds, which was the head of the queue
C29_WriteOrder ==
  [][\A s \in LobbyConn :
       sock'[s] = "open"
       => LET Ordered == IsPrefix(Line(s), Line(s)')
              Once == \/ wire'[s] = wire[s]
                      \/ /\ pc[s] = "sending" /\ pc'[s] # "sending"
                         /\ wire'[s] = Append(wire[s], local[s].msg)
              Taken1 == pc[s] # "sending" /\ pc'[s] = "sending"
                        => /\ send_queue[s] # <<>>
                           /\ local'[s].msg = Head(send_queue[s])
          IN  Ordered /\ Once /\ Taken1]_vars

\* another thread appended to the queue while the owner was between the
\* pop and the send, after the socket had taken earlier frames
C29_AppendedWhileSending ==
  \E s \in LobbyConn :
    /\ pc[s] = "sending" /\ wire[s] # <<>>
    /\ Len(send_queue[s]) >= MaxQueue


\* ------------------------------------------------ status while playing
\* a status frame (opcode 6) of a lobby client
StatusReq(s, stat, sequence) ==
  Authed(s) /\ Step(handle_status(Taken, s, stat, sequence))

\* C31: a status(0) or status(1) request of a playing session leaves it
\* playing, pushes no presence and stashes the status in previous_status;
\* the same request of a session that is not playing sets the status and
\* enqueues one presence push to every member of the session's channel
\* and to nobody else.
C31_StatusRequest ==
  [][\A s \in LobbyConn, stat \in {0, 1}, sequence \in SeqInputs :
       StatusReq(s, stat, sequence)
       => IF status[s] = 2
          THEN /\ status'[s] = 2
               /\ previous_status'[s] = stat
               /\ \A t \in Conn : OccursSeq(Enqueued(t), NegSeqPresence) = 0
          ELSE /\ status'[s] = stat
               /\ \A t \in Conn :
                    OccursSeq(Enqueued(t), NegSeqPresence)
                      = IF t \in ChannelClients(Cur, channel[s])
                        THEN 1 ELSE 0]_vars


\* ------------------------------------------- getnicks, malformed token
\* a NACK frame, whatever its code
IsNack(frame) == \E code \in 0..255 : frame[2] = NACK(code)

\* C32: a getnicks for a token that is no key of the quark map and does
\* not have the quark format is answered with a NACK, or the connection is
\* closed.
C32_MalformedGetnicks ==
  [][\A s \in Replayers, q \in SpectateInputs, sequence \in ReqSeqInputs :
       (/\ q \notin DOMAIN quarks
        /\ ~check_quark_format(q)
        /\ GetnicksReq(s, q, sequence))
       => \/ \E i \in 1..Len(Enqueued(s)) : IsNack(Enqueued(s)[i])
          \/ sock'[s] # "open"]_vars


\* ------------------------------------------- exceptions in a handler
\* the push ":<server> ERROR <text>" (line 356), as a pdu
IsErrorPush(frame) == frame[2][1] = "ERROR"

\* C33: a handler that raises (here handle_getnicks, on an archived
\* nicknames file of fewer than two lines) leaves the session connected
\* and enqueues an error push on it.
C33_ExceptionBecomesPush ==
  [][\A s \in Replayers, q \in Tokens, sequence \in ReqSeqInputs :
       (/\ Replayable(Taken, q)
        /\ ReplayRaises(Taken, q)
        /\ GetnicksReq(s, q, sequence))
       => /\ sock'[s] = "open"
          /\ \E i \in 1..Len(Enqueued(s)) : IsErrorPush(Enqueued(s)[i])]_vars


\* ------------------------------------- the rendezvous, thread by thread
\* RendezvousUDPServer is a ThreadingMixIn server (line 1686): every
\* datagram is handled on a thread of its own, and nothing locks
\* quarkqueue.  udp holds the threads, by the address of their datagram:
\* the statement a thread is at and its self.quark.  Here sendto collects
\* every datagram the server sent.  Each peer sends one datagram.

\* lines 1719-1725: the datagram arrives, the thread answers "ok <token>"
UdpBegin(client_address, payload) ==
  /\ client_address \notin DOMAIN udp
  /\ LET data == strip(payload)
         token == IF data # "ok" THEN data ELSE ""
     IN  Becomes([Cur EXCEPT
           !.udp = MapPut(@, client_address, [pc |-> "try", quark |-> token]),
           !.sendto = IF data # "ok"
                      THEN Append(@, <<<<"ok", token>>, client_address>>)
                      ELSE @])

\* line 1728: the lookup finds the entry of a peer, or raises KeyError
UdpLookup(b) ==
  /\ b \in DOMAIN udp /\ udp[b].pc = "try"
  /\ Becomes([Cur EXCEPT !.udp[b] =
        IF udp[b].quark \in DOMAIN quarkqueue
        THEN [pc |-> "link", quark |-> udp[b].quark,
              a |-> quarkqueue[udp[b].quark]]
        ELSE [pc |-> "except", quark |-> udp[b].quark]])

\* lines 1729-1730: each of the two is sent the address of the other
UdpLink(b) ==
  /\ b \in DOMAIN udp /\ udp[b].pc = "link"
  /\ Becomes([Cur EXCEPT
        !.sendto = @ \o <<<<addr2bytes(udp[b].a), b>>,
                          <<addr2bytes(b), udp[b].a>>>>,
        !.udp[b].pc = "del"])

\* line 1732: del quarkqueue[self.quark], KeyError when the entry is gone
UdpDel(b) ==
  /\ b \in DOMAIN udp /\ udp[b].pc = "del"
  /\ IF udp[b].quark \in DOMAIN quarkqueue
     THEN Becomes([Cur EXCEPT !.quarkqueue = MapDel(@, udp[b].quark),
                              !.udp[b].pc = "done"])
     ELSE Becomes([Cur EXCEPT !.udp[b].pc = "except"])

\* lines 1733-1735
UdpExcept(b) ==
  /\ b \in DOMAIN udp /\ udp[b].pc = "except"
  /\ Becomes([Cur EXCEPT
        !.quarkqueue = IF udp[b].quark # ""
                       THEN MapPut(@, udp[b].quark, b) ELSE @,
        !.udp[b].pc = "done"])

NextHolepunch ==
  \E b \in Peers :
    \/ \E payload \in Datagrams : UdpBegin(b, payload)
    \/ UdpLookup(b)
    \/ UdpLink(b)
    \/ UdpDel(b)
    \/ UdpExcept(b)

SpecHolepunch == Init /\ [][NextHolepunch]_vars

\* the server sent datagram d
Sent(d) == \E i \in 1..Len(sendto) : sendto[i] = d

\* C34: when two peers have each sent a token once, nobody else has sent
\* it, and their two handlers have ended, each of the two has been sent
\* the address of the other and the table has no entry for the token.
C34_ConcurrentRendezvous ==
  \A a \in DOMAIN udp, b \in DOMAIN udp :
    (/\ a # b
     /\ udp[a].pc = "done" /\ udp[b].pc = "done"
     /\ udp[a].quark \in UdpTokens /\ udp[b].quark = udp[a].quark
     /\ \A c \in DOMAIN udp \ {a, b} : udp[c].quark # udp[a].quark)
    => /\ Sent(<<addr2bytes(a), b>>) /\ Sent(<<addr2bytes(b), a>>)
       /\ udp[a].quark \notin DOMAIN quarkqueue


\* C35: a datagram with a token whose pending entry is the sender's own
\* address does not make the server send the sender its own address, and
\* leaves the entry in the table.
C35_NoSelfPairing ==
  [][\A b \in Peers, payload \in Datagrams :
       (/\ strip(payload) \in DOMAIN quarkqueue
        /\ quarkqueue[strip(payload)] = b
        /\ Datagram(b, payload))
       => /\ \A i \in 1..Len(sendto') : sendto'[i] # <<addr2bytes(b), b>>
          /\ quarkqueue' = quarkqueue]_vars


\* ------------------------------------------------- three lobby clients
\* A third lobby client, carol, on a connection of its own.  The three log
\* in, join sfiii3n, challenge one another and accept, always by a nick
\* that is logged in; MaxMatches bounds the accepts.
MaxMatches == 2
Third == CHOOSE s \in WatchConn : TRUE
Rivals == LobbyConn \cup {Third}
RivalOf(s) == IF s = Third THEN "carol" ELSE AccountOf(s)

AcceptWithin(s, n, sequence) ==
  /\ Authed(s)
  /\ minted < MaxMatches
  /\ Step(handle_accept(Taken, s, n, channel[s].name, sequence))

NextRivals ==
  \E s \in Rivals :
    \/ Accept(s)
    \/ nick[s] = None /\ DoAuth(s, {RivalOf(s)}, {"pw"})
    \/ channel[s].owner # 0 /\ DoJoin(s, {"sfiii3n"})
    \/ DoChallenge(s, DOMAIN clients \ {nick[s]}, {"sfiii3n"})
    \/ \E n \in DOMAIN clients \ {nick[s]}, sequence \in ReqSeqInputs :
         AcceptWithin(s, n, sequence)

SpecRivals == Init /\ [][NextRivals]_vars

\* C36: the opponent relation is symmetric and a session is in one match:
\* a session whose opponent is the nick of a session is the opponent of
\* that session, and the two have the same quark.
C36_OpponentSymmetric ==
  \A a \in Conn, b \in Conn :
    (/\ Connected(a) /\ Connected(b)
     /\ nick[a] # None /\ nick[b] # None
     /\ opponent[a] = nick[b])
    => opponent[b] = nick[a] /\ quark[a] = quark[b]


\* ------------------------------------------------------ unknown nicks
\* the fields of the sessions that the challenge broker writes
BrokerFields == <<challenging, side, opponent, status, previous_status,
                  quark>>

\* the request of s was refused with the NACK code, and nothing else
\* happened
Refused(s, sequence, code) ==
  /\ Enqueued(s) = <<reply(sequence, NACK(code))>>
  /\ \A t \in Conn \ {s} : Enqueued(t) = <<>>
  /\ BrokerFields' = BrokerFields

\* C37: a challenge, accept, decline or cancel that names a nick that is
\* no key of the nick map is refused with NACK 0x0A, 0x0C, 0x0D, 0x0E, and
\* changes no session: no challenging map gets an entry and nobody gets a
\* notice.
C37_UnknownNickRefused ==
  [][\A s \in LobbyConn, n \in NickInputs \ DOMAIN clients,
        sequence \in ReqSeqInputs :
       LET Challenge == \A ch \in ChannelInputs :
                          ChallengeReq(s, n, ch, sequence)
                          => Refused(s, sequence, NackChallenge)
           Accepted == AcceptReq(s, n, sequence)
                       => Refused(s, sequence, NackAccept)
           Declined == DeclineReq(s, n, sequence)
                       => Refused(s, sequence, NackDecline)
           Cancelled == CancelReq(s, n, sequence)
                        => Refused(s, sequence, NackCancel)
       IN  Authed(s) => Challenge /\ Accepted /\ Declined /\ Cancelled]_vars


\* ------------------------------------- lobby opcodes without an auth
\* Two lobby clients start a match; their emulators connect, send getpeer
\* and then lobby opcodes (users, join).  No emulator connection ever
\* sends auth.
NextUnauth ==
  \/ \E s \in LobbyConn : Accept(s)
  \/ \E s \in LobbyConn : nick[s] = None /\ DoAuth(s, {AccountOf(s)}, {"pw"})
  \/ \E s \in LobbyConn : channel[s].owner # 0 /\ DoJoin(s, {"sfiii3n"})
  \/ DoChallenge(Challenger, {AccountOf(Challenged)}, {"sfiii3n"})
  \/ DoAccept(Challenged, {AccountOf(Challenger)})
  \/ \E s \in EmuConn : Launch(s)
  \/ \E s \in EmuConn : DoGetpeer(s)
  \/ \E s \in EmuConn : GetpeerReturn(s)
  \/ \E s \in EmuConn : DoUsers(s)
  \/ \E s \in EmuConn : channel[s].owner # 0 /\ DoJoin(s, {"lobby"})

SpecUnauth == Init /\ [][NextUnauth]_vars

\* C38: the lobby opcodes of a connection that never authenticated (here
\* the connections of the emulators) have no effect: such a connection is
\* never sent the reply of users and is a member of no channel.
C38_LobbyNeedsAuth ==
  \A s \in EmuConn :
    /\ \A i \in 1..Len(send_queue[s]) : send_queue[s][i][2][1] # "users"
    /\ \A c \in Catalog : s \notin chanClients[c]


\* ------------------------------------------------- the spectator sets
\* C39: every member of the spectator set of a quark is a connected
\* session of role spectator whose quark is the token of that quark (so a
\* session is in the spectator set of one quark at most).
C39_SpectatorSets ==
  \A q \in DOMAIN quarks :
    \A s \in quarks[q].spectators :
      /\ Connected(s)
      /\ clienttype[s] = "spectator"
      /\ quark[s] = q


\* ------------------------------------------- frames of an outsider
\* C40: a gamebuffer or savestate frame of a connection that is neither
\* p1 nor p2 of the quark it names relays nothing to anybody, changes the
\* side of no spectator, and leaves the recorded flag of the quark and the
\* archive files as they are.
C40_OutsiderFrame ==
  [][\A s \in EmuConn, q \in DOMAIN quarks, gamebuf \in GamebufInputs :
       (/\ Ready(s)
        /\ s \notin {quarks[q].p1, quarks[q].p2}
        /\ \/ GamebufferReq(s, q, gamebuf)
           \/ \E sequence \in ReqSeqInputs :
                SavestateReq(s, q, gamebuf, sequence))
       => /\ \A t \in Conn :
               /\ OccursSeq(Enqueued(t), NegSeqGamebuffer) = 0
               /\ OccursSeq(Enqueued(t), NegSeqSavestate) = 0
          /\ \A t \in quarks[q].spectators : side'[t] = side[t]
          /\ files' = files
          /\ q \in DOMAIN quarks' => quarks'[q].recorded = quarks[q].recorded]_vars

====
